---- MODULE Spec2Model ----
(***************************************************************************)
(* odoo-depends: the module scanner, the dependency graph builder, the     *)
(* graph queries of OdooModuleAnalyzer (src/odoo_depends/analyzer.py) and  *)
(* the version diff of UpgradeAnalyzer                                     *)
(* (src/odoo_depends/upgrade_analyzer.py).                                 *)
(*                                                                         *)
(* Python dicts keep insertion order, and networkx stores nodes and        *)
(* adjacency in dicts, so the module mapping, the node list and every      *)
(* adjacency list are sequences without repetition.                        *)
(***************************************************************************)
EXTENDS Integers, Sequences, FiniteSets, TLC

VARIABLES fs, modules, graph, source_analyzer, target_analyzer, op

vars == <<fs, modules, graph, source_analyzer, target_analyzer, op>>

(***************************************************************************)
(* Bounds of the checked inputs.                                           *)
(***************************************************************************)
\* most dependency names one manifest of the analyzer inputs declares
MaxDeps == 2
\* most dependency declarations over all manifests of one input of Spec
MaxLifecycleDeps == 2
\* most dependency declarations over all manifests of one input of SpecOrder,
\* SpecReach and SpecCycles
MaxTotalDeps == 4
\* most dependency declarations over all manifests of one input of SpecUpgrade
MaxUpgradeDeps == 3
\* most names in a subset handed to get_install_order
MaxSubset == 2
\* most dependency names one manifest of the compared versions declares
MaxDiffDeps == 2
\* most dependency names one manifest of an input of SpecRescan declares, and
\* most declarations over all its manifests
MaxRescanDeps == 1
\* most modules that depend on the assessed module in an input of SpecImpact
MaxDependents == 60
\* most model classes of the assessed module in an input of SpecImpact
MaxEntities == 11
\* most assignments in the body of the class of an input of SpecModels
MaxBody == 2

(***************************************************************************)
(* Names.  Strings are atoms for TLC, so the alphabetical order used by    *)
(* sorted() is given by the position in SortedNames.                       *)
(***************************************************************************)
\* the names of the modules that depend on the assessed module in the inputs
\* of the impact assessment
DependentNames ==
  <<
    "d01", "d02", "d03", "d04", "d05", "d06", "d07", "d08", "d09", "d10",
    "d11", "d12", "d13", "d14", "d15", "d16", "d17", "d18", "d19", "d20",
    "d21", "d22", "d23", "d24", "d25", "d26", "d27", "d28", "d29", "d30",
    "d31", "d32", "d33", "d34", "d35", "d36", "d37", "d38", "d39", "d40",
    "d41", "d42", "d43", "d44", "d45", "d46", "d47", "d48", "d49", "d50",
    "d51", "d52", "d53", "d54", "d55", "d56", "d57", "d58", "d59", "d60",
    "d61", "d62"
  >>

\* the entity names the model classes of the inputs assign to _name
EntityNames ==
  <<
    "e01", "e02", "e03", "e04", "e05", "e06", "e07", "e08", "e09", "e10",
    "e11", "e12", "e13"
  >>

SortedNames == <<"a", "b", "base", "c">> \o DependentNames \o EntityNames

\* analyzer.py:54-63, restricted to the names of the model
CORE_MODULES == {"base"}

Range(s) == {s[i] : i \in 1..Len(s)}

RECURSIVE Flatten(_)
\* concatenation of a sequence of sequences
Flatten(ss) == IF ss = <<>> THEN <<>> ELSE Head(ss) \o Flatten(Tail(ss))

\* sorted(list(S)) for a set of names
Sorted(S) == SelectSeq(SortedNames, LAMBDA n : n \in S)

\* sequences over S of length at most n
SeqsUpTo(S, n) == UNION {[1..k -> S] : k \in 0..n}

\* sequences over S of length at most n without repetition
InjSeqsUpTo(S, n) == {s \in SeqsUpTo(S, n) : \A i, j \in 1..Len(s) : s[i] = s[j] => i = j}

(***************************************************************************)
(* The file system a scan reads.  A directory is                           *)
(*   [name, init, manifest, children]                                      *)
(* init: an __init__.py file exists; manifest.file: the manifest file that *)
(* _parse_module opens; manifest.kind: what its text is: "dict", a dict    *)
(* literal; "literal", another literal, such as a list; "code", no literal *)
(* (a syntax error, a computed value); "unreadable", no text can be read   *)
(* (permission, encoding); manifest.data: the recognized keys the text     *)
(* gives a value to (a record of these keys).                              *)
(***************************************************************************)
NoManifest == [file |-> "none", kind |-> "none", data |-> <<>>]

Manifest(f, k, d) == [file |-> f, kind |-> k, data |-> d]

DictManifest(d) == [file |-> "__manifest__.py", kind |-> "dict", data |-> d]

Directory(n, i, m, ch) == [name |-> n, init |-> i, manifest |-> m, children |-> ch]

\* dict.get(key, default)
Get(d, k, default) == IF k \in DOMAIN d THEN d[k] ELSE default

\* str.startswith('.') on the directory names of the model
StartsWithDot(n) == n \in {".git", ".hidden"}

\* analyzer.py:129-140
IsOdooModule(dir) == dir.init /\ dir.manifest.file # "none"

\* the outcome of a block of code: it raises, or it gives val (<<>> for None,
\* else the one value)
Raises == [exc |-> TRUE, val |-> <<>>]

Returns(v) == [exc |-> FALSE, val |-> v]

\* analyzer.py:187-188: ast.literal_eval is handed the code object that compile()
\* returns, neither the text nor the tree, and raises ValueError for it whatever
\* the text is
StrictParse(manifest) == Raises

\* analyzer.py:193-258: one regular expression for each recognized key; depends,
\* installable and application get a value when theirs finds nothing
RegexExtract(manifest) ==
    Returns(<<manifest.data @@ [depends |-> <<>>, installable |-> TRUE, application |-> FALSE]>>)

\* analyzer.py:181-263: each try block goes on to what follows it when it raises
SafeParseManifest(manifest) ==
    LET strict == StrictParse(manifest)
        regex == RegexExtract(manifest)
    IN  IF ~strict.exc THEN strict
        ELSE IF ~regex.exc /\ regex.val # <<>> /\ "depends" \in DOMAIN regex.val[1] THEN regex
        ELSE Returns(<<>>)

\* the module named by the name key of its manifest
ParseModuleBodyManifestName(dir, parent) ==
    IF dir.manifest.kind = "unreadable" THEN Raises
    ELSE LET manifest_data == SafeParseManifest(dir.manifest) IN
         IF manifest_data.exc THEN Raises
         ELSE IF manifest_data.val = <<>> THEN Returns(<<>>)
         ELSE LET d == manifest_data.val[1] IN
              Returns(<<[name |-> Get(d, "name", dir.name),
                         path |-> Append(parent, dir.name),
                         version |-> Get(d, "version", "1.0"),
                         category |-> Get(d, "category", ""),
                         depends |-> Get(d, "depends", <<>>),
                         installable |-> Get(d, "installable", TRUE),
                         application |-> Get(d, "application", FALSE)]>>)

\* analyzer.py:151-175, the body of the try block; the path of a module is the path
\* of its parent directory and its name
ParseModuleBody(dir, parent) ==
    IF dir.manifest.kind = "unreadable" THEN Raises
    ELSE LET manifest_data == SafeParseManifest(dir.manifest) IN
         IF manifest_data.exc THEN Raises
         ELSE IF manifest_data.val = <<>> THEN Returns(<<>>)
         ELSE LET d == manifest_data.val[1] IN
              Returns(<<[name |-> dir.name,
                         path |-> Append(parent, dir.name),
                         version |-> Get(d, "version", "1.0"),
                         category |-> Get(d, "category", ""),
                         depends |-> Get(d, "depends", <<>>),
                         installable |-> Get(d, "installable", TRUE),
                         application |-> Get(d, "application", FALSE)]>>)

\* the body with no except clause around it
ParseModuleUncaught(dir, parent) ==
    IF dir.manifest.file = "none" THEN Returns(<<>>) ELSE ParseModuleBody(dir, parent)

\* analyzer.py:142-179: "except Exception: return None" around the body
ParseModule(dir, parent) ==
    IF dir.manifest.file = "none" THEN Returns(<<>>)
    ELSE LET body == ParseModuleBody(dir, parent) IN
         IF body.exc THEN Returns(<<>>) ELSE body

(***************************************************************************)
(* self.modules: an insertion-ordered dict, as the sequence of its values. *)
(***************************************************************************)
Keys(mods) == {mods[i].name : i \in 1..Len(mods)}

KeySeq(mods) == [i \in 1..Len(mods) |-> mods[i].name]

Lookup(mods, n) == mods[CHOOSE i \in 1..Len(mods) : mods[i].name = n]

\* self.modules[module.name] = module
DictSet(mods, m) ==
    IF m.name \in Keys(mods)
    THEN [i \in 1..Len(mods) |-> IF mods[i].name = m.name THEN m ELSE mods[i]]
    ELSE Append(mods, m)

\* "module = self._parse_module(d); if module: self.modules[module.name] = module"
Record(mods, dir, parent) ==
    LET m == ParseModule(dir, parent).val IN
    IF m = <<>> THEN mods ELSE DictSet(mods, m[1])

RECURSIVE ScanSubitems(_, _, _)
\* analyzer.py:121-125: the loop over the subitems, one after the other; a list
\* of several is cut in two halves, the first scanned before the second, which
\* keeps the nesting of the evaluation small
ScanSubitems(mods, subitems, parent) ==
    IF subitems = <<>> THEN mods
    ELSE IF Len(subitems) = 1
    THEN LET s == subitems[1] IN
         IF IsOdooModule(s) THEN Record(mods, s, parent) ELSE mods
    ELSE LET half == Len(subitems) \div 2
             first == ScanSubitems(mods, SubSeq(subitems, 1, half), parent)
             rest == SubSeq(subitems, half + 1, Len(subitems))
         IN  \* first = first and rest = rest hold always: they have the
             \* first half evaluated before the second is begun
             IF first = first /\ rest = rest THEN ScanSubitems(first, rest, parent) ELSE mods

RECURSIVE ScanItems(_, _, _)
\* analyzer.py:113-125: the loop over the items, cut in halves like the one
\* over the subitems
ScanItems(mods, items, parent) ==
    IF items = <<>> THEN mods
    ELSE IF Len(items) = 1
    THEN LET item == items[1] IN
         IF StartsWithDot(item.name) THEN mods
         ELSE IF IsOdooModule(item) THEN Record(mods, item, parent)
         ELSE ScanSubitems(mods, item.children, Append(parent, item.name))
    ELSE LET half == Len(items) \div 2
             first == ScanItems(mods, SubSeq(items, 1, half), parent)
             rest == SubSeq(items, half + 1, Len(items))
         IN  IF first = first /\ rest = rest THEN ScanItems(first, rest, parent) ELSE mods

\* no return after the root is recorded
ScanDirectoryThrough(mods, dir) ==
    ScanItems(IF IsOdooModule(dir) THEN Record(mods, dir, <<>>) ELSE mods,
              dir.children, <<dir.name>>)

\* analyzer.py:102-127
ScanDirectory(mods, dir) ==
    IF IsOdooModule(dir) THEN Record(mods, dir, <<>>)
    ELSE ScanItems(mods, dir.children, <<dir.name>>)

\* analyzer.py:105-125: the directories a scan of dir hands to _parse_module
ParsedDirs(dir) ==
    IF IsOdooModule(dir) THEN {dir}
    ELSE UNION {IF StartsWithDot(item.name) THEN {}
                ELSE IF IsOdooModule(item) THEN {item}
                ELSE {subitem \in Range(item.children) : IsOdooModule(subitem)} :
                  item \in Range(dir.children)}

\* analyzer.py:88-100: an exception of a call of _parse_module leaves
\* scan_modules, since no try block of the scan catches it
ScanRaises(roots) ==
    \E i \in 1..Len(roots) : \E d \in ParsedDirs(roots[i]) : ParseModule(d, <<>>).exc

RECURSIVE ScanPaths(_, _)
\* analyzer.py:90-98, every path an existing directory
ScanPaths(mods, roots) ==
    IF roots = <<>> THEN mods
    ELSE ScanPaths(ScanDirectory(mods, Head(roots)), Tail(roots))

(***************************************************************************)
(* networkx.DiGraph: the node list, the successor list of every node and   *)
(* the attribute dict of every node.  isNone: self.graph is None.          *)
(***************************************************************************)
NoFcn == [n \in {} |-> <<>>]

NoGraph == [isNone |-> TRUE, nodes |-> <<>>, adj |-> NoFcn, attr |-> NoFcn]

\* nx.DiGraph()
EmptyGraph == [isNone |-> FALSE, nodes |-> <<>>, adj |-> NoFcn, attr |-> NoFcn]

NodeSet(g) == Range(g.nodes)

Succ(g, n) == Range(g.adj[n])

Edges(g) == {<<u, v>> \in NodeSet(g) \X NodeSet(g) : v \in Succ(g, u)}

\* DiGraph.add_node(n, **a): a new node, or an update of the attributes
AddNode(g, n, a) ==
    IF n \in NodeSet(g)
    THEN [g EXCEPT !.attr[n] = a @@ @]
    ELSE [g EXCEPT !.nodes = Append(@, n),
                   !.adj = @ @@ (n :> <<>>),
                   !.attr = @ @@ (n :> a)]

\* DiGraph.add_edge(u, v): both ends become nodes, one edge per pair
AddEdge(g, u, v) ==
    LET g1 == IF u \in NodeSet(g) THEN g ELSE AddNode(g, u, NoFcn)
        g2 == IF v \in NodeSet(g1) THEN g1 ELSE AddNode(g1, v, NoFcn)
    IN  IF v \in Succ(g2, u) THEN g2 ELSE [g2 EXCEPT !.adj[u] = Append(@, v)]

\* analyzer.py:276-284
ModuleAttrs(m) ==
    [version |-> m.version, category |-> m.category, application |-> m.application,
     is_core |-> m.name \in CORE_MODULES, installable |-> m.installable, path |-> m.path]

\* analyzer.py:291-295
ExternalAttrs(dep) == [is_external |-> TRUE, is_core |-> dep \in CORE_MODULES]

RECURSIVE AddModuleNodes(_, _)
\* analyzer.py:275-284: the loop over the modules, one after the other; a list
\* of several is cut in two halves, the first added before the second, which
\* keeps the nesting of the evaluation small
AddModuleNodes(g, mods) ==
    IF mods = <<>> THEN g
    ELSE IF Len(mods) = 1 THEN AddNode(g, mods[1].name, ModuleAttrs(mods[1]))
    ELSE LET half == Len(mods) \div 2
             first == AddModuleNodes(g, SubSeq(mods, 1, half))
             rest == SubSeq(mods, half + 1, Len(mods))
         IN  \* first = first and rest = rest hold always: they have the
             \* first half evaluated before the second is begun
             IF first = first /\ rest = rest THEN AddModuleNodes(first, rest) ELSE g

\* an edge only to a dependency that is already a node: no external placeholder
AddDependencyScannedOnly(g, name, dep) ==
    IF dep \notin NodeSet(g) THEN g ELSE AddEdge(g, name, dep)

\* analyzer.py:290-296
AddDependency(g, name, dep) ==
    AddEdge(IF dep \notin NodeSet(g) THEN AddNode(g, dep, ExternalAttrs(dep)) ELSE g,
            name, dep)

RECURSIVE AddDependencies(_, _, _)
\* analyzer.py:288-296
AddDependencies(g, name, deps) ==
    IF deps = <<>> THEN g
    ELSE AddDependencies(AddDependency(g, name, Head(deps)), name, Tail(deps))

RECURSIVE AddModuleEdges(_, _)
\* analyzer.py:287-296: the loop over the modules, cut in halves like the one
\* that adds the nodes
AddModuleEdges(g, mods) ==
    IF mods = <<>> THEN g
    ELSE IF Len(mods) = 1 THEN AddDependencies(g, mods[1].name, mods[1].depends)
    ELSE LET half == Len(mods) \div 2
             first == AddModuleEdges(g, SubSeq(mods, 1, half))
             rest == SubSeq(mods, half + 1, Len(mods))
         IN  IF first = first /\ rest = rest THEN AddModuleEdges(first, rest) ELSE g

\* analyzer.py:265-298
BuildDependencyGraph(mods) == AddModuleEdges(AddModuleNodes(EmptyGraph, mods), mods)

\* "if self.graph is None: self.build_dependency_graph()"
Ensure(g, mods) == IF g.isNone THEN BuildDependencyGraph(mods) ELSE g

(***************************************************************************)
(* Reachability queries.                                                   *)
(***************************************************************************)
Pred(g, n) == {u \in NodeSet(g) : n \in Succ(g, u)}

RECURSIVE BfsNodes(_, _, _, _)
\* nx.bfs_edges from one source: the nodes it visits, the source included; back
\* tells the direction (FALSE: successors, TRUE: predecessors)
BfsNodes(g, back, frontier, visited) ==
    IF frontier = {} THEN visited
    ELSE LET nbrs == UNION {IF back THEN Pred(g, n) ELSE Succ(g, n) : n \in frontier}
             new == nbrs \ visited
         IN  BfsNodes(g, back, new, visited \cup new)

\* the direct dependencies only
DescendantsOneHop(g, source) == Succ(g, source) \ {source}

\* nx.descendants(G, source): the children of the BFS edges, never the source
Descendants(g, source) == BfsNodes(g, FALSE, {source}, {source}) \ {source}

\* the direct dependents only
AncestorsOneHop(g, source) == Pred(g, source) \ {source}

\* nx.ancestors(G, source)
Ancestors(g, source) == BfsNodes(g, TRUE, {source}, {source}) \ {source}

\* analyzer.py:314-322, on the graph the call works on
AllDependencies(g, module_name, include_core) ==
    IF module_name \notin NodeSet(g) THEN {}
    ELSE LET deps == Descendants(g, module_name) IN
         IF ~include_core THEN {d \in deps : d \notin CORE_MODULES} ELSE deps

\* analyzer.py:337-340
ReverseDependencies(g, module_name) ==
    IF module_name \notin NodeSet(g) THEN {} ELSE Ancestors(g, module_name)

RECURSIVE MaxShortestPathLength(_, _, _, _)
\* nx.single_source_shortest_path_length: the nodes are met level by level,
\* each at the level of its first visit; the greatest level that has a node
MaxShortestPathLength(g, frontier, visited, level) ==
    LET new == (UNION {Succ(g, n) : n \in frontier}) \ visited IN
    IF new = {} THEN level
    ELSE MaxShortestPathLength(g, new, visited \cup new, level + 1)

\* -1 for a name that is no node
DependencyDepthAbsentUnknown(g, module_name) ==
    IF module_name \notin NodeSet(g) THEN -1
    ELSE MaxShortestPathLength(g, {module_name}, {module_name}, 0)

\* analyzer.py:421-429; lengths holds the source at 0, and nothing raises
DependencyDepth(g, module_name) ==
    IF module_name \notin NodeSet(g) THEN 0
    ELSE MaxShortestPathLength(g, {module_name}, {module_name}, 0)

(***************************************************************************)
(* Install order: nx.topological_sort of the reversed graph.               *)
(***************************************************************************)
\* the graph as it is, not reversed
ReverseForgotten(g) == g

\* DiGraph.reverse(): the same nodes in the same order; the edges are added in
\* the order of G.edges, so the successors of n are its predecessors in G in
\* node order
Reverse(g) ==
    [g EXCEPT !.adj = [n \in NodeSet(g) |-> SelectSeq(g.nodes, LAMBDA u : n \in Succ(g, u))]]

InDegree(g, n) == Cardinality(Pred(g, n))

RECURSIVE RelaxChildren(_, _, _)
\* the inner loops of nx.topological_generations over the children of one
\* generation: indegree_map[child] -= 1, a child that reaches 0 joins the next one
RelaxChildren(indeg, zero, children) ==
    IF children = <<>> THEN [indeg |-> indeg, zero |-> zero]
    ELSE LET c == Head(children)
             d == indeg[c] - 1
         IN  RelaxChildren([indeg EXCEPT ![c] = d],
                           IF d = 0 THEN Append(zero, c) ELSE zero,
                           Tail(children))

RECURSIVE Generations(_, _, _, _)
\* the while loop of nx.topological_generations; ok is FALSE where it raises
\* NetworkXUnfeasible (nodes are left whose indegree never reached 0)
Generations(g, indeg, zero, done) ==
    IF zero = <<>>
    THEN [ok |-> \A n \in NodeSet(g) : indeg[n] = 0, order |-> done]
    ELSE LET r == RelaxChildren(indeg, <<>>, Flatten([i \in 1..Len(zero) |-> g.adj[zero[i]]]))
         IN  Generations(g, r.indeg, r.zero, done \o zero)

\* a sort that leaves the nodes of a cycle out instead of raising
TopologicalSortUnchecked(g) ==
    [Generations(g, [n \in NodeSet(g) |-> InDegree(g, n)],
                 SelectSeq(g.nodes, LAMBDA n : InDegree(g, n) = 0), <<>>) EXCEPT !.ok = TRUE]

\* list(nx.topological_sort(G))
TopologicalSort(g) ==
    Generations(g, [n \in NodeSet(g) |-> InDegree(g, n)],
                SelectSeq(g.nodes, LAMBDA n : InDegree(g, n) = 0), <<>>)

\* a subset argument: None, or a list of names
NoSubset == [isNone |-> TRUE, names |-> <<>>]

SubsetOf(names) == [isNone |-> FALSE, names |-> names]

\* the named modules without their dependencies
RequiredNamedOnly(g, module_names) == Range(module_names)

\* analyzer.py:397-400
Required(g, module_names) ==
    Range(module_names) \cup UNION {AllDependencies(g, n, TRUE) : n \in Range(module_names)}

\* the subset tested for None, not for truth
InstallOrderNotNone(g, subset) ==
    LET t == TopologicalSort(Reverse(g)) IN
    IF ~t.ok THEN <<>>
    ELSE IF ~subset.isNone
         THEN SelectSeq(t.order, LAMBDA m : m \in Required(g, subset.names))
         ELSE t.order

\* analyzer.py:390-406, on the graph the call works on
InstallOrder(g, subset) ==
    LET t == TopologicalSort(Reverse(g)) IN
    IF ~t.ok THEN <<>>
    ELSE IF ~subset.isNone /\ subset.names # <<>>
         THEN SelectSeq(t.order, LAMBDA m : m \in Required(g, subset.names))
         ELSE t.order

(***************************************************************************)
(* Missing dependencies.                                                   *)
(***************************************************************************)
\* every dependency that was not scanned, the core modules too
MissingDepsCoreToo(mods, m) == SelectSeq(m.depends, LAMBDA dep : dep \notin Keys(mods))

\* analyzer.py:368-371
MissingDeps(mods, m) ==
    SelectSeq(m.depends, LAMBDA dep : dep \notin Keys(mods) /\ dep \notin CORE_MODULES)

\* analyzer.py:358-375: the dict as the sequence of its items <<name, list>>
FindMissingDependencies(mods) ==
    LET all == [i \in 1..Len(mods) |-> <<mods[i].name, MissingDeps(mods, mods[i])>>]
    IN  SelectSeq(all, LAMBDA kv : kv[2] # <<>>)

(***************************************************************************)
(* Cycle detection: nx.simple_cycles.                                      *)
(***************************************************************************)
\* the successors of n inside the node set S, self-loops dropped
SuccIn(g, S, n) == SelectSeq(g.adj[n], LAMBDA w : w \in S /\ w # n)

RECURSIVE ReachIn(_, _, _, _)
\* the nodes reachable from the frontier inside S
ReachIn(g, S, frontier, visited) ==
    IF frontier = {} THEN visited
    ELSE LET new == (UNION {Range(SuccIn(g, S, n)) : n \in frontier}) \ visited
         IN  ReachIn(g, S, new, visited \cup new)

\* nx.strongly_connected_components of the subgraph induced by S
StrongComponents(g, S) ==
    LET R(n) == ReachIn(g, S, {n}, {n}) IN
    {{m \in S : m \in R(n) /\ n \in R(m)} : n \in S}

BigComponents(g, S) == {c \in StrongComponents(g, S) : Cardinality(c) >= 2}

RECURSIVE CyclePaths(_, _, _)
\* _johnson_cycle_search(Gc, [v]): every elementary cycle of the component S
\* through path[1], as the path that starts there
CyclePaths(g, S, path) ==
    LET succ == SuccIn(g, S, path[Len(path)])
        closes == IF path[1] \in Range(succ) THEN <<path>> ELSE <<>>
        nexts == SelectSeq(succ, LAMBDA w : w \notin Range(path))
    IN  closes \o Flatten([i \in 1..Len(nexts) |-> CyclePaths(g, S, Append(path, nexts[i]))])

RECURSIVE DirectedCycleSearch(_, _)
\* _directed_cycle_search: take a component and a node v of it, list the cycles
\* through v, remove v, go on with the components that remain.  The pick of the
\* component and of v only decides the order of the list.
DirectedCycleSearch(g, components) ==
    IF components = {} THEN <<>>
    ELSE LET c == CHOOSE x \in components : TRUE
             v == CHOOSE x \in c : TRUE
         IN  CyclePaths(g, c, <<v>>)
             \o DirectedCycleSearch(g, (components \ {c}) \cup BigComponents(g, c \ {v}))

\* the self-loops, one [v] each, in node order
SelfLoops(g) ==
    LET loops == SelectSeq(g.nodes, LAMBDA n : n \in Succ(g, n))
    IN  [i \in 1..Len(loops) |-> <<loops[i]>>]

\* the cycles of two or more nodes only
SimpleCyclesNoSelfLoops(g) == DirectedCycleSearch(g, BigComponents(g, NodeSet(g)))

\* list(nx.simple_cycles(G)), analyzer.py:352-356
SimpleCycles(g) == SelfLoops(g) \o DirectedCycleSearch(g, BigComponents(g, NodeSet(g)))

(***************************************************************************)
(* UpgradeAnalyzer.compare_versions.                                       *)
(***************************************************************************)
\* upgrade_analyzer.py:306-308: an analyzer that was not loaded is None
NoAnalyzer == [isNone |-> TRUE, modules |-> <<>>, graph |-> NoGraph]

\* upgrade_analyzer.py:312-322: OdooModuleAnalyzer(paths), scan_modules,
\* build_dependency_graph
LoadedAnalyzer(roots) ==
    LET mods == ScanPaths(<<>>, roots) IN
    [isNone |-> FALSE, modules |-> mods, graph |-> BuildDependencyGraph(mods)]

\* the declared dependency lists compared as lists
CompareModuleOrdered(source, target) ==
    SelectSeq(<<"version", "category", "application", "depends">>,
              LAMBDA k : source[k] # target[k])

\* upgrade_analyzer.py:370-387: which of the four compared attributes changed
CompareModule(source, target) ==
    SelectSeq(<<"version", "category", "application", "depends">>,
              LAMBDA k : IF k = "depends"
                         THEN Range(source.depends) # Range(target.depends)
                         ELSE source[k] # target[k])

\* the difference taken the wrong way round
AddedModulesSwapped(src, tgt) == Sorted(Keys(src) \ Keys(tgt))

\* upgrade_analyzer.py:335
AddedModules(src, tgt) == Sorted(Keys(tgt) \ Keys(src))

\* every module of the source, in the target or not
RemovedModulesUnfiltered(src, tgt) == Sorted(Keys(src))

\* upgrade_analyzer.py:338
RemovedModules(src, tgt) == Sorted(Keys(src) \ Keys(tgt))

\* the common modules in the order of the target mapping
ModifiedModulesUnsorted(src, tgt) ==
    LET common == SelectSeq(KeySeq(tgt), LAMBDA n : n \in Keys(src))
        all == [i \in 1..Len(common) |->
                  [name |-> common[i],
                   changes |-> CompareModule(Lookup(src, common[i]), Lookup(tgt, common[i]))]]
    IN  SelectSeq(all, LAMBDA e : e.changes # <<>>)

\* upgrade_analyzer.py:341-351
ModifiedModules(src, tgt) ==
    LET common == Sorted(Keys(src) \cap Keys(tgt))
        all == [i \in 1..Len(common) |->
                  [name |-> common[i],
                   changes |-> CompareModule(Lookup(src, common[i]), Lookup(tgt, common[i]))]]
    IN  SelectSeq(all, LAMBDA e : e.changes # <<>>)

\* the two differences of each entry exchanged
DependencyChangesSwapped(src, tgt) ==
    LET common == Sorted(Keys(src) \cap Keys(tgt))
        all == [i \in 1..Len(common) |->
                  LET sd == Range(Lookup(src, common[i]).depends)
                      td == Range(Lookup(tgt, common[i]).depends)
                  IN  [module |-> common[i],
                       added_dependencies |-> Sorted(sd \ td),
                       removed_dependencies |-> Sorted(td \ sd)]]
    IN  SelectSeq(all, LAMBDA e : e.added_dependencies # <<>> \/ e.removed_dependencies # <<>>)

\* upgrade_analyzer.py:354-366
DependencyChanges(src, tgt) ==
    LET common == Sorted(Keys(src) \cap Keys(tgt))
        all == [i \in 1..Len(common) |->
                  LET sd == Range(Lookup(src, common[i]).depends)
                      td == Range(Lookup(tgt, common[i]).depends)
                  IN  [module |-> common[i],
                       added_dependencies |-> Sorted(td \ sd),
                       removed_dependencies |-> Sorted(sd \ td)]]
    IN  SelectSeq(all, LAMBDA e : e.added_dependencies # <<>> \/ e.removed_dependencies # <<>>)

\* upgrade_analyzer.py:329-368: the VersionDiff
CompareVersions(src, tgt) ==
    [added_modules |-> AddedModules(src, tgt),
     removed_modules |-> RemovedModules(src, tgt),
     modified_modules |-> ModifiedModules(src, tgt),
     dependency_changes |-> DependencyChanges(src, tgt)]

(***************************************************************************)
(* ModelAnalyzer.  A directory may hold Python files (field files); a file *)
(* is [name, classes], its classes in the order ast.walk meets them; a     *)
(* class is [cls, body] and an assignment of its body [target, value],     *)
(* the value a string constant, a list of strings, a call fields.T(...)    *)
(* or anything else.                                                       *)
(***************************************************************************)
FIELD_TYPES ==
    {"Char", "Text", "Html", "Integer", "Float", "Monetary", "Boolean", "Date",
     "Datetime", "Binary", "Image", "Selection", "Reference", "Many2one",
     "One2many", "Many2many"}

StrValue(s) == [kind |-> "str", s |-> s]

ListValue(elts) == [kind |-> "list", elts |-> elts]

FieldCall(type) == [kind |-> "field", type |-> type]

Assign(target, value) == [target |-> target, value |-> value]

ClassDef(cls, body) == [cls |-> cls, body |-> body]

PyFile(name, classes) == [name |-> name, classes |-> classes]

\* upgrade_analyzer.py:217-224
IsFieldDefinition(value) == value.kind = "field" /\ value.type \in FIELD_TYPES

\* upgrade_analyzer.py:171-194: one assignment of the class body; the second
\* branch for ast.Assign (196-203) is never taken, the first one has the
\* same test
ParseAssign(model, item) ==
    CASE item.target = "_name" ->
           [model EXCEPT !.name = IF item.value.kind = "str" THEN item.value.s ELSE "",
                         !.is_odoo_model = TRUE]
      [] item.target = "_inherit" /\ item.value.kind = "str" ->
           [model EXCEPT !.inherit = <<item.value.s>>, !.is_odoo_model = TRUE]
      [] item.target = "_inherit" /\ item.value.kind = "list" ->
           [model EXCEPT !.inherit = item.value.elts, !.is_odoo_model = TRUE]
      [] item.target \in {"_inherit", "_inherits", "_description"} -> model
      [] OTHER ->
           IF (item.target \in FIELD_TYPES \/ IsFieldDefinition(item.value))
              /\ item.value.kind = "field" /\ item.value.type \in FIELD_TYPES
           THEN [model EXCEPT !.fields = IF item.target \in Range(@) THEN @
                                         ELSE Append(@, item.target)]
           ELSE model

RECURSIVE ParseBody(_, _)
ParseBody(model, body) ==
    IF body = <<>> THEN model
    ELSE ParseBody(ParseAssign(model, Head(body)), Tail(body))

\* upgrade_analyzer.py:163-215: <<>> for None, else the one model; the name
\* None of a class with several inherited names and no _name is written ""
ParseClass(node) ==
    LET m == ParseBody([name |-> "", inherit |-> <<>>, fields |-> <<>>,
                        is_odoo_model |-> FALSE], node.body)
        named == IF m.name = "" /\ m.inherit # <<>>
                 THEN [m EXCEPT !.name = IF Len(m.inherit) = 1 THEN m.inherit[1] ELSE "",
                                !.is_odoo_model = TRUE]
                 ELSE m
    IN  IF named.is_odoo_model THEN <<named>> ELSE <<>>

\* self.models[key] = model
ModelSet(models, key, model) ==
    IF \E i \in 1..Len(models) : models[i].key = key
    THEN [i \in 1..Len(models) |->
            IF models[i].key = key THEN [key |-> key, model |-> model] ELSE models[i]]
    ELSE Append(models, [key |-> key, model |-> model])

RECURSIVE ParseClasses(_, _)
\* upgrade_analyzer.py:151-158: the loop over the classes, one after the other;
\* a list of several is cut in two halves, the first parsed before the second,
\* which keeps the nesting of the evaluation small
ParseClasses(models, classes) ==
    IF classes = <<>> THEN models
    ELSE IF Len(classes) = 1
    THEN LET node == classes[1]
             model == ParseClass(node)
         IN  IF model = <<>> THEN models
             ELSE ModelSet(models,
                           IF model[1].name # "" THEN model[1].name ELSE node.cls,
                           model[1])
    ELSE LET half == Len(classes) \div 2
             first == ParseClasses(models, SubSeq(classes, 1, half))
             rest == SubSeq(classes, half + 1, Len(classes))
         IN  \* first = first and rest = rest hold always: they have the
             \* first half evaluated before the second is begun
             IF first = first /\ rest = rest THEN ParseClasses(first, rest) ELSE models

RECURSIVE ParsePythonFiles(_, _, _)
\* upgrade_analyzer.py:133-139: every file but the excluded ones
ParsePythonFiles(models, files, excluded) ==
    IF files = <<>> THEN models
    ELSE ParsePythonFiles(IF Head(files).name \in excluded THEN models
                          ELSE ParseClasses(models, Head(files).classes),
                          Tail(files), excluded)

Files(dir) == Get(dir, "files", <<>>)

RECURSIVE DirAt(_, _)
\* the directory a path names
DirAt(dirs, path) ==
    LET d == dirs[CHOOSE i \in 1..Len(dirs) : dirs[i].name = Head(path)] IN
    IF Len(path) = 1 THEN d ELSE DirAt(d.children, Tail(path))

RECURSIVE RGlob(_)
\* Path.rglob('*.py'): the files of a directory and of all below it
RGlob(dir) == Files(dir) \o Flatten([i \in 1..Len(dir.children) |-> RGlob(dir.children[i])])

\* upgrade_analyzer.py:126-141, on a ModelAnalyzer just constructed
AnalyzeModule(fsys, module_path) ==
    LET dir == DirAt(fsys, module_path)
        models_dirs == SelectSeq(dir.children, LAMBDA c : c.name = "models")
    IN  IF models_dirs = <<>>
        THEN ParsePythonFiles(<<>>, Files(dir), {"__init__.py", "__manifest__.py"})
        ELSE ParsePythonFiles(<<>>, RGlob(models_dirs[1]), {"__init__.py"})

(***************************************************************************)
(* UpgradeAnalyzer.assess_upgrade_impact.  A risk factor is the pair of    *)
(* its kind and the number or name its text shows; a recommendation is     *)
(* named by what it advises.                                               *)
(***************************************************************************)
\* the thresholds met instead of exceeded
RiskLevelInclusive(module_name, dependent_count) ==
    IF dependent_count >= 50 \/ module_name \in CORE_MODULES THEN "critical"
    ELSE IF dependent_count >= 20 THEN "high"
    ELSE IF dependent_count >= 5 THEN "medium"
    ELSE "low"

\* upgrade_analyzer.py:451-461: the level by the dependents alone
RiskLevel(module_name, dependent_count) ==
    IF dependent_count > 50 \/ module_name \in CORE_MODULES THEN "critical"
    ELSE IF dependent_count > 20 THEN "high"
    ELSE IF dependent_count > 5 THEN "medium"
    ELSE "low"

\* upgrade_analyzer.py:463-466
Escalated(risk_level, model_count) ==
    IF model_count > 10 /\ risk_level = "low" THEN "medium" ELSE risk_level

\* upgrade_analyzer.py:451-464: the factors appended
RiskFactors(risk_level, dependent_count, model_count) ==
    (IF risk_level = "low" THEN <<>> ELSE <<<<risk_level, dependent_count>>>>)
    \o (IF model_count > 10 THEN <<<<"models", model_count>>>> ELSE <<>>)

\* upgrade_analyzer.py:468-479
Recommendations(risk_level) ==
    CASE risk_level = "critical" -> <<"test_first", "rollback_plan", "backup">>
      [] risk_level = "high" -> <<"check_all_dependents", "verify_in_test">>
      [] risk_level = "medium" -> <<"check_direct_dependents">>
      [] OTHER -> <<"safe">>

\* upgrade_analyzer.py:434-438
AllDependents(g, direct_dependents) ==
    Range(direct_dependents)
    \cup UNION {ReverseDependencies(g, direct_dependents[i]) : i \in 1..Len(direct_dependents)}

\* the module looked for among the nodes of the graph
AssessUpgradeImpactByNode(fsys, mods, g, module_name) ==
    IF module_name \notin NodeSet(g)
    THEN [module_name |-> module_name, direct_dependents |-> <<>>,
          all_dependents |-> <<>>, affected_models |-> <<>>,
          risk_level |-> "critical",
          risk_factors |-> <<<<"not_found", module_name>>>>,
          recommendations |-> <<>>]
    ELSE LET direct == Sorted(ReverseDependencies(g, module_name))
             all == Sorted(AllDependents(g, direct))
             models == IF module_name \in Keys(mods)
                       THEN AnalyzeModule(fsys, Lookup(mods, module_name).path) ELSE <<>>
             affected == Sorted({models[i].key : i \in 1..Len(models)})
             level == RiskLevel(module_name, Len(all))
             risk == Escalated(level, Len(affected))
         IN  [module_name |-> module_name, direct_dependents |-> direct,
              all_dependents |-> all, affected_models |-> affected,
              risk_level |-> risk,
              risk_factors |-> RiskFactors(level, Len(all), Len(affected)),
              recommendations |-> Recommendations(risk)]

\* upgrade_analyzer.py:422-481; g is the graph get_reverse_dependencies works on
AssessUpgradeImpact(fsys, mods, g, module_name) ==
    IF module_name \notin Keys(mods)
    THEN [module_name |-> module_name, direct_dependents |-> <<>>,
          all_dependents |-> <<>>, affected_models |-> <<>>,
          risk_level |-> "critical",
          risk_factors |-> <<<<"not_found", module_name>>>>,
          recommendations |-> <<>>]
    ELSE LET direct == Sorted(ReverseDependencies(g, module_name))
             all == Sorted(AllDependents(g, direct))
             models == AnalyzeModule(fsys, Lookup(mods, module_name).path)
             affected == Sorted({models[i].key : i \in 1..Len(models)})
             level == RiskLevel(module_name, Len(all))
             risk == Escalated(level, Len(affected))
         IN  [module_name |-> module_name, direct_dependents |-> direct,
              all_dependents |-> all, affected_models |-> affected,
              risk_level |-> risk,
              risk_factors |-> RiskFactors(level, Len(all), Len(affected)),
              recommendations |-> Recommendations(risk)]

\* upgrade_analyzer.py:483-501; g is the graph get_install_order works on
UpgradeOrder(fsys, mods, g, subset) ==
    LET order == InstallOrder(g, subset) IN
    [i \in 1..Len(order) |->
       LET impact == AssessUpgradeImpact(fsys, mods, g, order[i]) IN
       [order |-> i, module |-> order[i], risk_level |-> impact.risk_level,
        dependents_count |-> Len(impact.all_dependents)]]

(***************************************************************************)
(* The inputs of the analyzer: one addons directory that holds the module  *)
(* directories a, b, c or the first ones of them, listed in name order.    *)
(* The three names are interchangeable, so a renaming covers every other   *)
(* listing order and every other choice of the directories present.  A     *)
(* dependency on a module that is not there, or on base, gives an external *)
(* node.                                                                   *)
(***************************************************************************)
ModuleNames == <<"a", "b", "c">>

DepNames == {"a", "b", "c", "base"}

\* what the manifests of the analyzer inputs say besides depends
FixedData(n) ==
    CASE n = "a" -> [version |-> "17.0.1.0", application |-> TRUE]
      [] n = "b" -> [category |-> "Sales", installable |-> FALSE]
      [] OTHER -> NoFcn

ModuleDir(n, data) == Directory(n, TRUE, DictManifest(data), <<>>)

AddonsDir(rootName, children) == Directory(rootName, FALSE, NoManifest, children)

RECURSIVE SumLen(_, _)
SumLen(f, S) ==
    IF S = {} THEN 0
    ELSE LET x == CHOOSE y \in S : TRUE IN Len(f[x]) + SumLen(f, S \ {x})

\* one dependency list for every module present: lists drawn from lists, at
\* most maxTotal declarations in all
DependsChoices(present, lists, maxTotal) ==
    {f \in [present -> lists] : SumLen(f, present) <= maxTotal}

AnalyzerInputs(lists, maxTotal) ==
    {<<AddonsDir("addons",
         [i \in 1..k |-> ModuleDir(ModuleNames[i],
                                   ("depends" :> f[ModuleNames[i]]) @@ FixedData(ModuleNames[i]))])>> :
       <<k, f>> \in UNION {{<<kk, ff>> : ff \in DependsChoices({ModuleNames[i] : i \in 1..kk},
                                                              lists, maxTotal)} :
                              kk \in 0..Len(ModuleNames)}}

\* the names a query is asked about: a module that is scanned whenever one is,
\* one that is scanned or external, the core name, and a name no manifest has
QueryNames == {"a", "c", "base", "ghost"}

\* the subsets handed to get_install_order
Subsets ==
    {NoSubset} \cup
    {SubsetOf(Sorted(S) \o (IF g THEN <<"ghost">> ELSE <<>>)) :
       <<S, g>> \in {<<T, h>> \in (SUBSET {"a", "c"}) \X BOOLEAN :
                       Cardinality(T) + (IF h THEN 1 ELSE 0) <= MaxSubset}}

(***************************************************************************)
(* The inputs of the scan: one root, which is a module itself or not, with *)
(* any of: the directory a, which is a module with a manifest of any kind  *)
(* under either file name, or a module that holds the module inner, or     *)
(* lacks its manifest or its __init__.py and holds the module c; the       *)
(* directory group, no module, with any of the module b, the module        *)
(* .hidden and the directory deep that holds the module far; the directory *)
(* .git, a module itself or the holder of the module hook.                 *)
(***************************************************************************)
ScanManifests ==
    {Manifest("__manifest__.py", "dict", [name |-> "Alpha", depends |-> <<"base">>]),
     Manifest("__openerp__.py", "dict", [depends |-> <<"base">>]),
     Manifest("__manifest__.py", "literal", NoFcn),
     Manifest("__manifest__.py", "code", [version |-> "2.0", depends |-> <<"c">>]),
     Manifest("__openerp__.py", "code", NoFcn),
     Manifest("__manifest__.py", "unreadable", NoFcn)}

PlainModule(n) == Directory(n, TRUE, DictManifest([depends |-> <<>>]), <<>>)

ScanDirsA ==
    {<<>>}
    \cup {<<Directory("a", TRUE, m, <<>>)>> : m \in ScanManifests}
    \cup {<<Directory("a", TRUE, DictManifest([depends |-> <<>>]), <<PlainModule("inner")>>)>>,
          <<Directory("a", TRUE, NoManifest, <<PlainModule("c")>>)>>,
          <<Directory("a", FALSE, DictManifest([depends |-> <<>>]), <<PlainModule("c")>>)>>}

ScanDirsGroup ==
    {<<>>}
    \cup {<<Directory("group", FALSE, NoManifest, b \o h \o d)>> :
            b \in {<<>>} \cup {<<Directory("b", TRUE, m, <<>>)>> : m \in ScanManifests},
            h \in {<<>>, <<PlainModule(".hidden")>>},
            d \in {<<>>, <<Directory("deep", FALSE, NoManifest, <<PlainModule("far")>>)>>}}

ScanDirsGit ==
    {<<>>,
     <<PlainModule(".git")>>,
     <<Directory(".git", FALSE, NoManifest, <<PlainModule("hook")>>)>>}

ScanInputs ==
    {<<Directory("addons", r, IF r THEN DictManifest([depends |-> <<>>]) ELSE NoManifest,
                 a \o g \o t)>> :
       r \in BOOLEAN, a \in ScanDirsA, g \in ScanDirsGroup, t \in ScanDirsGit}

(***************************************************************************)
(* The inputs of the version diff: an addons directory with module a and   *)
(* module b, either of which may be missing.  The manifest of a sets any   *)
(* of version, category and application, or declares any dependency list,  *)
(* or is not installable.  Two more directories have both modules with a   *)
(* dependency of b, one of them listing b before a.                        *)
(***************************************************************************)
DiffManifests ==
    {[depends |-> <<"b">>] @@ v @@ c @@ ap :
       v \in {NoFcn, [version |-> "2.0"]},
       c \in {NoFcn, [category |-> "Sales"]},
       ap \in {NoFcn, [application |-> TRUE]}}
    \cup {[depends |-> d] : d \in SeqsUpTo({"b", "c"}, MaxDiffDeps)}
    \cup {[depends |-> <<>>, installable |-> FALSE]}

DiffInputs(rootName) ==
    {<<AddonsDir(rootName, da \o db)>> :
       da \in {<<>>} \cup {<<ModuleDir("a", m)>> : m \in DiffManifests},
       db \in {<<>>, <<ModuleDir("b", [depends |-> <<>>])>>}}
    \cup {<<AddonsDir(rootName, <<ModuleDir("a", [depends |-> <<"b">>]),
                                  ModuleDir("b", [depends |-> <<"c">>])>>)>>,
          <<AddonsDir(rootName, <<ModuleDir("b", [depends |-> <<"a">>, version |-> "2.0"]),
                                  ModuleDir("a", [depends |-> <<"c">>])>>)>>}

(***************************************************************************)
(* The inputs of the impact assessment: an addons directory with the       *)
(* assessed module, named a or base, whose models.py defines e models,     *)
(* and k modules that depend on it: all of them directly, or the first     *)
(* directly and the others through the first; the assessed module may      *)
(* depend on the first in turn, which closes a cycle.                      *)
(***************************************************************************)
ModelClass(j) ==
    ClassDef("Model", <<Assign("_name", StrValue(EntityNames[j])),
                        Assign("name", FieldCall("Char"))>>)

AssessedDir(tn, e, depends) ==
    [files |-> <<PyFile("models.py", [j \in 1..e |-> ModelClass(j)])>>]
    @@ ModuleDir(tn, [depends |-> depends])

ImpactFs(tn, k, e, through, cycle) ==
    <<AddonsDir("addons",
        <<AssessedDir(tn, e, IF cycle THEN <<DependentNames[1]>> ELSE <<>>)>>
        \o [i \in 1..k |->
              ModuleDir(DependentNames[i],
                        [depends |-> IF through /\ i > 1 THEN <<DependentNames[1]>>
                                     ELSE <<tn>>])])>>

\* every number of direct dependents with every number of models; the other
\* shapes with no model
ImpactInputs ==
    {ImpactFs(tn, k, e, FALSE, FALSE) :
       tn \in {"a", "base"}, k \in 0..MaxDependents, e \in 0..MaxEntities}
    \cup {ImpactFs(tn, k, 0, through, cycle) :
            tn \in {"a", "base"}, k \in 1..MaxDependents,
            through \in BOOLEAN, cycle \in BOOLEAN}

\* the names assessed: the two the assessed module can have, of which the one
\* it does not have is in no manifest, and the first dependent
ImpactNames == {"a", "base", DependentNames[1]}

(***************************************************************************)
(* The inputs of the model analyzer: the module a with one Python file,    *)
(* in the module directory or in its models directory, that defines the    *)
(* class Model, whose body is any sequence of assignments: of _name, of    *)
(* _inherit, of _description, of a field and of other attributes, each to  *)
(* a value of any kind.                                                    *)
(***************************************************************************)
OtherValue == [kind |-> "other"]

Assignments ==
    {Assign("_name", StrValue("e01")), Assign("_name", OtherValue),
     Assign("_inherit", StrValue("e02")), Assign("_inherit", ListValue(<<"e02", "e03">>)),
     Assign("_inherit", OtherValue), Assign("_description", StrValue("e04")),
     Assign("name", FieldCall("Char")), Assign("partner_id", FieldCall("Many2one")),
     Assign("name", FieldCall("Custom")), Assign("Char", OtherValue),
     Assign("_order", StrValue("name"))}

ModelDir(body, inModels) ==
    LET file == <<PyFile("models.py", <<ClassDef("Model", body)>>)>> IN
    IF inModels
    THEN Directory("a", TRUE, DictManifest([depends |-> <<>>]),
                   <<[files |-> file] @@ Directory("models", TRUE, NoManifest, <<>>)>>)
    ELSE [files |-> file] @@ Directory("a", TRUE, DictManifest([depends |-> <<>>]), <<>>)

ModelInputs ==
    {<<AddonsDir("addons", <<ModelDir(body, m)>>)>> :
       body \in SeqsUpTo(Assignments, MaxBody), m \in BOOLEAN}

(***************************************************************************)
(* The operations.  op is the last call: its name, arguments and result.   *)
(***************************************************************************)
Op(n, a, r) == [name |-> n, args |-> a, ret |-> r, raised |-> FALSE]

Raised(n, a) == [name |-> n, args |-> a, ret |-> <<>>, raised |-> TRUE]

\* analyzer.py:76-79; fs holds the directories of self.paths, in their order
add_path(root) ==
    /\ fs' = IF \E i \in 1..Len(fs) : fs[i].name = root.name THEN fs ELSE Append(fs, root)
    /\ op' = Op("add_path", <<root.name>>, <<>>)
    /\ UNCHANGED <<modules, graph, source_analyzer, target_analyzer>>

\* analyzer.py:81-100
scan_modules ==
    /\ modules' = ScanPaths(<<>>, fs)
    /\ op' = IF ScanRaises(fs) THEN Raised("scan_modules", <<>>)
             ELSE Op("scan_modules", <<>>, KeySeq(modules'))
    /\ UNCHANGED <<fs, graph, source_analyzer, target_analyzer>>

\* analyzer.py:265-298
build_dependency_graph ==
    /\ graph' = BuildDependencyGraph(modules)
    /\ op' = Op("build_dependency_graph", <<>>, <<>>)
    /\ UNCHANGED <<fs, modules, source_analyzer, target_analyzer>>

\* analyzer.py:300-322
get_all_dependencies(module_name, include_core) ==
    /\ graph' = Ensure(graph, modules)
    /\ op' = Op("get_all_dependencies", <<module_name, include_core>>,
                AllDependencies(graph', module_name, include_core))
    /\ UNCHANGED <<fs, modules, source_analyzer, target_analyzer>>

\* analyzer.py:324-340
get_reverse_dependencies(module_name) ==
    /\ graph' = Ensure(graph, modules)
    /\ op' = Op("get_reverse_dependencies", <<module_name>>,
                ReverseDependencies(graph', module_name))
    /\ UNCHANGED <<fs, modules, source_analyzer, target_analyzer>>

\* analyzer.py:408-429
get_dependency_depth(module_name) ==
    /\ graph' = Ensure(graph, modules)
    /\ op' = Op("get_dependency_depth", <<module_name>>,
                DependencyDepth(graph', module_name))
    /\ UNCHANGED <<fs, modules, source_analyzer, target_analyzer>>

\* analyzer.py:342-356
find_circular_dependencies ==
    /\ graph' = Ensure(graph, modules)
    /\ op' = Op("find_circular_dependencies", <<>>, SimpleCycles(graph'))
    /\ UNCHANGED <<fs, modules, source_analyzer, target_analyzer>>

\* analyzer.py:358-375
find_missing_dependencies ==
    /\ op' = Op("find_missing_dependencies", <<>>, FindMissingDependencies(modules))
    /\ UNCHANGED <<fs, modules, graph, source_analyzer, target_analyzer>>

\* analyzer.py:377-406
get_install_order(module_names) ==
    /\ graph' = Ensure(graph, modules)
    /\ op' = Op("get_install_order", <<module_names>>, InstallOrder(graph', module_names))
    /\ UNCHANGED <<fs, modules, source_analyzer, target_analyzer>>

\* upgrade_analyzer.py:417-481, on the analyzer of fs, modules and graph; the
\* graph is built by get_reverse_dependencies if there is none
assess_upgrade_impact(module_name) ==
    /\ graph' = IF module_name \in Keys(modules) THEN Ensure(graph, modules) ELSE graph
    /\ op' = Op("assess_upgrade_impact", <<module_name>>,
                AssessUpgradeImpact(fs, modules, graph', module_name))
    /\ UNCHANGED <<fs, modules, source_analyzer, target_analyzer>>

\* upgrade_analyzer.py:483-501, on the analyzer of fs, modules and graph; the
\* graph is built by get_install_order if there is none
get_upgrade_order(module_names) ==
    /\ graph' = Ensure(graph, modules)
    /\ op' = Op("get_upgrade_order", <<module_names>>,
                UpgradeOrder(fs, modules, graph', module_names))
    /\ UNCHANGED <<fs, modules, source_analyzer, target_analyzer>>

\* upgrade_analyzer.py:126-141, on a ModelAnalyzer just constructed: the mapping
\* returned, as the sequence of its keys with their models
analyze_module(module_path) ==
    /\ op' = Op("analyze_module", <<module_path>>, AnalyzeModule(fs, module_path))
    /\ UNCHANGED <<fs, modules, graph, source_analyzer, target_analyzer>>

InitOp == Op("__init__", <<>>, <<>>)

\* upgrade_analyzer.py:312-316
load_source(roots) ==
    /\ source_analyzer' = LoadedAnalyzer(roots)
    /\ op' = Op("load_source", <<>>, <<>>)
    /\ UNCHANGED <<fs, modules, graph, target_analyzer>>

\* upgrade_analyzer.py:318-322
load_target(roots) ==
    /\ target_analyzer' = LoadedAnalyzer(roots)
    /\ op' = Op("load_target", <<>>, <<>>)
    /\ UNCHANGED <<fs, modules, graph, source_analyzer>>

\* only the source side tested
compare_versions_source_tested ==
    /\ op' = IF source_analyzer.isNone
             THEN Raised("compare_versions", <<>>)
             ELSE Op("compare_versions", <<>>,
                     CompareVersions(source_analyzer.modules, target_analyzer.modules))
    /\ UNCHANGED <<fs, modules, graph, source_analyzer, target_analyzer>>

\* upgrade_analyzer.py:324-368
compare_versions ==
    /\ op' = IF source_analyzer.isNone \/ target_analyzer.isNone
             THEN Raised("compare_versions", <<>>)
             ELSE Op("compare_versions", <<>>,
                     CompareVersions(source_analyzer.modules, target_analyzer.modules))
    /\ UNCHANGED <<fs, modules, graph, source_analyzer, target_analyzer>>

(***************************************************************************)
(* Spec: one analyzer from its construction on (analyzer.py:65-74), over   *)
(* the paths of one of the inputs.                                         *)
(***************************************************************************)
Init ==
    /\ fs \in AnalyzerInputs(SeqsUpTo(DepNames, MaxDeps), MaxLifecycleDeps)
    /\ modules = <<>>
    /\ graph = NoGraph
    /\ source_analyzer = NoAnalyzer
    /\ target_analyzer = NoAnalyzer
    /\ op = InitOp

Next ==
    \/ scan_modules
    \/ build_dependency_graph
    \/ \E n \in QueryNames, c \in BOOLEAN : get_all_dependencies(n, c)
    \/ \E n \in QueryNames : get_reverse_dependencies(n)
    \/ find_circular_dependencies
    \/ find_missing_dependencies
    \/ \E s \in Subsets : get_install_order(s)

Spec == Init /\ [][Next]_vars

(***************************************************************************)
(* SpecRescan: one analyzer from its construction on, whose paths grow by  *)
(* add_path, so that a later scan finds other modules than an earlier one, *)
(* with every query about a name and the impact assessment.                *)
(***************************************************************************)
\* the directory add_path adds: its module c depends on a
ExtraRoots == {AddonsDir("extra", <<ModuleDir("c", [depends |-> <<"a">>])>>)}

InitRescan ==
    /\ fs \in AnalyzerInputs(SeqsUpTo(DepNames, MaxRescanDeps), MaxRescanDeps)
    /\ modules = <<>>
    /\ graph = NoGraph
    /\ source_analyzer = NoAnalyzer
    /\ target_analyzer = NoAnalyzer
    /\ op = InitOp

NextRescan ==
    \/ \E r \in ExtraRoots : add_path(r)
    \/ scan_modules
    \/ build_dependency_graph
    \/ \E n \in QueryNames : get_all_dependencies(n, TRUE)
    \/ \E n \in QueryNames : get_reverse_dependencies(n)
    \/ \E n \in QueryNames : get_dependency_depth(n)
    \/ find_circular_dependencies
    \/ get_install_order(NoSubset)
    \/ \E n \in QueryNames : assess_upgrade_impact(n)

SpecRescan == InitRescan /\ [][NextRescan]_vars

(***************************************************************************)
(* SpecScan: scan_modules on a new analyzer over one of the scan inputs.   *)
(***************************************************************************)
InitScan ==
    /\ fs \in ScanInputs
    /\ modules = <<>>
    /\ graph = NoGraph
    /\ source_analyzer = NoAnalyzer
    /\ target_analyzer = NoAnalyzer
    /\ op = InitOp

NextScan == scan_modules

SpecScan == InitScan /\ [][NextScan]_vars

(***************************************************************************)
(* SpecModels: analyze_module of a new ModelAnalyzer on the module of one  *)
(* of the model inputs (upgrade_analyzer.py:123-124).                      *)
(***************************************************************************)
InitModels ==
    /\ fs \in ModelInputs
    /\ modules = <<>>
    /\ graph = NoGraph
    /\ source_analyzer = NoAnalyzer
    /\ target_analyzer = NoAnalyzer
    /\ op = InitOp

NextModels == analyze_module(<<"addons", "a">>)

SpecModels == InitModels /\ [][NextModels]_vars

(***************************************************************************)
(* SpecOrder, SpecReach, SpecDepth, SpecCycles: the graph queries as       *)
(* functions of the graph, on an analyzer that has scanned one of the      *)
(* larger inputs and                                                       *)
(* built its graph (as load_source does, upgrade_analyzer.py:314-316).  No *)
(* name is declared twice in one manifest here: a second declaration       *)
(* changes nothing in the graph (AddEdge), and Spec covers it.             *)
(***************************************************************************)
InitGraph ==
    /\ fs \in AnalyzerInputs(InjSeqsUpTo(DepNames, MaxDeps), MaxTotalDeps)
    /\ modules = ScanPaths(<<>>, fs)
    /\ graph = BuildDependencyGraph(modules)
    /\ source_analyzer = NoAnalyzer
    /\ target_analyzer = NoAnalyzer
    /\ op = Op("build_dependency_graph", <<>>, <<>>)

NextOrder == \E s \in Subsets : get_install_order(s)

SpecOrder == InitGraph /\ [][NextOrder]_vars

NextReach ==
    \/ \E n \in QueryNames, c \in BOOLEAN : get_all_dependencies(n, c)
    \/ \E n \in QueryNames : get_reverse_dependencies(n)

SpecReach == InitGraph /\ [][NextReach]_vars

NextDepth == \E n \in QueryNames : get_dependency_depth(n)

SpecDepth == InitGraph /\ [][NextDepth]_vars

NextCycles == find_circular_dependencies

SpecCycles == InitGraph /\ [][NextCycles]_vars

(***************************************************************************)
(* SpecUpgrade: assess_upgrade_impact and get_upgrade_order on an analyzer *)
(* that has scanned an input of at most MaxUpgradeDeps declarations and   *)
(* built its graph, where a dependency on base or on a module that is not  *)
(* there is an external node.                                              *)
(***************************************************************************)
InitUpgrade ==
    /\ fs \in AnalyzerInputs(InjSeqsUpTo(DepNames, MaxDeps), MaxUpgradeDeps)
    /\ modules = ScanPaths(<<>>, fs)
    /\ graph = BuildDependencyGraph(modules)
    /\ source_analyzer = NoAnalyzer
    /\ target_analyzer = NoAnalyzer
    /\ op = Op("build_dependency_graph", <<>>, <<>>)

NextUpgrade ==
    \/ \E n \in QueryNames : assess_upgrade_impact(n)
    \/ \E s \in Subsets : get_upgrade_order(s)

SpecUpgrade == InitUpgrade /\ [][NextUpgrade]_vars

(***************************************************************************)
(* SpecImpact: assess_upgrade_impact on an analyzer that has scanned one   *)
(* of the impact inputs and built its graph.                               *)
(***************************************************************************)
InitImpact ==
    /\ fs \in ImpactInputs
    /\ modules = ScanPaths(<<>>, fs)
    /\ graph = BuildDependencyGraph(modules)
    /\ source_analyzer = NoAnalyzer
    /\ target_analyzer = NoAnalyzer
    /\ op = Op("build_dependency_graph", <<>>, <<>>)

NextImpact == \E n \in ImpactNames : assess_upgrade_impact(n)

SpecImpact == InitImpact /\ [][NextImpact]_vars

(***************************************************************************)
(* SpecDiff: one UpgradeAnalyzer from its construction on                  *)
(* (upgrade_analyzer.py:306-310).                                          *)
(***************************************************************************)
InitDiff ==
    /\ fs = <<>>
    /\ modules = <<>>
    /\ graph = NoGraph
    /\ source_analyzer = NoAnalyzer
    /\ target_analyzer = NoAnalyzer
    /\ op = InitOp

NextDiff ==
    \/ \E r \in DiffInputs("old") : load_source(r)
    \/ \E r \in DiffInputs("new") : load_target(r)
    \/ compare_versions

SpecDiff == InitDiff /\ [][NextDiff]_vars

(***************************************************************************)
(* What the claims are stated with: paths by Warshall's closure of the     *)
(* edge relation, and the elementary cycles by enumeration.                *)
(***************************************************************************)
RECURSIVE Via(_, _, _)
\* the pairs joined by a path of one or more edges of E whose inner nodes are in K
Via(E, N, K) ==
    IF K = {} THEN E
    ELSE LET k == CHOOSE x \in K : TRUE
             E1 == Via(E, N, K \ {k})
         IN  E1 \cup {<<u, v>> \in N \X N : <<u, k>> \in E1 /\ <<k, v>> \in E1}

PathPairs(g) == Via(Edges(g), NodeSet(g), NodeSet(g))

Acyclic(g) == \A n \in NodeSet(g) : <<n, n>> \notin PathPairs(g)

NoRepeat(s) == \A i, j \in 1..Len(s) : s[i] = s[j] => i = j

Index(s, x) == CHOOSE i \in 1..Len(s) : s[i] = x

IsCycle(g, c) ==
    /\ c # <<>>
    /\ NoRepeat(c)
    /\ Range(c) \subseteq NodeSet(g)
    /\ \A i \in 1..Len(c) : c[(i % Len(c)) + 1] \in Succ(g, c[i])

Rotations(c) == {[i \in 1..Len(c) |-> c[((i + k - 1) % Len(c)) + 1]] : k \in 0..(Len(c) - 1)}

ElementaryCycles(g) ==
    {c \in InjSeqsUpTo(NodeSet(g), Cardinality(NodeSet(g))) : IsCycle(g, c)}

External(g) == {n \in NodeSet(g) : "is_external" \in DOMAIN g.attr[n]}

(***************************************************************************)
(* The claims.                                                             *)
(***************************************************************************)
\* C1: after build_dependency_graph every declared dependency D of every scanned
\* module M is a node (a scanned-module node if D was scanned, else an external
\* placeholder with is_external and is_core only) and M->D is an edge; no
\* successor list leads out of the node set.
C1_GraphComplete ==
    op.name = "build_dependency_graph" =>
        /\ \A i \in 1..Len(modules) : \A d \in Range(modules[i].depends) :
              /\ modules[i].name \in NodeSet(graph)
              /\ d \in NodeSet(graph)
              /\ d \in Succ(graph, modules[i].name)
              /\ IF d \in Keys(modules)
                 THEN /\ "is_external" \notin DOMAIN graph.attr[d]
                      /\ graph.attr[d].path = Lookup(modules, d).path
                 ELSE graph.attr[d] = [is_external |-> TRUE, is_core |-> d \in CORE_MODULES]
        /\ DOMAIN graph.adj = NodeSet(graph)
        /\ \A n \in NodeSet(graph) : Succ(graph, n) \subseteq NodeSet(graph)

\* a build over a module that declares a scanned and an unscanned dependency
C1_Witness ==
    /\ op.name = "build_dependency_graph"
    /\ Len(modules) >= 2
    /\ \E i \in 1..Len(modules) : \E d, e \in Range(modules[i].depends) :
          d \in Keys(modules) /\ e \notin Keys(modules) /\ e \in External(graph)

\* C2: on an acyclic graph get_install_order() without a subset returns every
\* graph node exactly once, and for every edge A->B it places B before A.
C2_InstallOrderTopological ==
    (op.name = "get_install_order" /\ op.args[1].isNone /\ Acyclic(graph)) =>
        /\ Range(op.ret) = NodeSet(graph)
        /\ NoRepeat(op.ret)
        /\ \A e \in Edges(graph) : Index(op.ret, e[2]) < Index(op.ret, e[1])

\* the full order of an acyclic graph of four nodes, one external, with a node
\* that two others depend on
C2_Witness ==
    /\ op.name = "get_install_order" /\ op.args[1].isNone /\ Acyclic(graph)
    /\ Len(op.ret) = 4
    /\ External(graph) # {}
    /\ Cardinality(Edges(graph)) = 4
    /\ \E n \in NodeSet(graph) : Cardinality(Pred(graph, n)) = 2

\* C3: when the graph has a directed cycle (a self-dependency included)
\* get_install_order returns the empty list, with or without a subset, and does
\* not raise.
C3_CycleGivesEmptyOrder ==
    (op.name = "get_install_order" /\ ~Acyclic(graph)) => (op.ret = <<>> /\ ~op.raised)

\* an order asked for a subset, on a graph with a self-dependency and with nodes
\* that are on no cycle
C3_Witness ==
    /\ op.name = "get_install_order"
    /\ ~op.args[1].isNone /\ op.args[1].names # <<>>
    /\ \E n \in NodeSet(graph) : n \in Succ(graph, n)
    /\ \E n \in NodeSet(graph) : <<n, n>> \notin PathPairs(graph) /\ Succ(graph, n) = {}
    /\ op.ret = <<>>

\* C4: find_circular_dependencies returns every elementary cycle exactly once up
\* to rotation, each a sequence of distinct nodes joined by edges (the last to the
\* first); the list is empty iff the graph is acyclic; a graph whose edges are
\* exactly X->Y->Z->X gives exactly one cycle, with node set {X, Y, Z}.
C4_CyclesExactlyOnce ==
    op.name = "find_circular_dependencies" =>
        /\ \A i \in 1..Len(op.ret) : IsCycle(graph, op.ret[i])
        /\ \A c \in ElementaryCycles(graph) :
              Cardinality({i \in 1..Len(op.ret) : op.ret[i] \in Rotations(c)}) = 1
        /\ (op.ret = <<>>) <=> Acyclic(graph)
        /\ \A x, y, z \in NodeSet(graph) :
              (Cardinality({x, y, z}) = 3 /\ Edges(graph) = {<<x, y>>, <<y, z>>, <<z, x>>})
                  => (Len(op.ret) = 1 /\ Range(op.ret[1]) = {x, y, z})

\* the cycles of a graph in which two cycles of two or more nodes share a node
C4_Witness ==
    /\ op.name = "find_circular_dependencies"
    /\ Len(op.ret) >= 2
    /\ \E i, j \in 1..Len(op.ret) :
          i # j /\ Len(op.ret[i]) >= 2 /\ Len(op.ret[j]) >= 2
          /\ Range(op.ret[i]) \cap Range(op.ret[j]) # {}

\* the three-module cycle a -> b -> c -> a
C4_ThreeCycleWitness ==
    /\ op.name = "find_circular_dependencies"
    /\ Edges(graph) = {<<"a", "b">>, <<"b", "c">>, <<"c", "a">>}
    /\ Len(op.ret) = 1 /\ Range(op.ret[1]) = {"a", "b", "c"}

\* C6: find_missing_dependencies has one entry for each scanned module that
\* declares a name neither scanned nor core, and no other entry; the entry lists
\* exactly those names; a core name is never listed.
C6_MissingDependencies ==
    op.name = "find_missing_dependencies" =>
        LET missing(m) == {d \in Range(m.depends) : d \notin Keys(modules) /\ d \notin CORE_MODULES}
            keys == [i \in 1..Len(op.ret) |-> op.ret[i][1]]
        IN  /\ NoRepeat(keys)
            /\ Range(keys) = {modules[i].name : i \in {j \in 1..Len(modules) : missing(modules[j]) # {}}}
            /\ \A i \in 1..Len(op.ret) :
                  /\ Range(op.ret[i][2]) = missing(Lookup(modules, op.ret[i][1]))
                  /\ Range(op.ret[i][2]) \cap CORE_MODULES = {}

\* a module that declares an unscanned core name and a missing name, beside a
\* module with nothing missing
C6_Witness ==
    /\ op.name = "find_missing_dependencies"
    /\ Len(modules) = 2
    /\ Len(op.ret) = 1
    /\ \E i \in 1..Len(modules) :
          /\ modules[i].name = op.ret[1][1]
          /\ "base" \in Range(modules[i].depends)
          /\ "base" \notin Keys(modules)
          /\ op.ret[1][2] # <<>>

\* C7: for a module of the graph get_all_dependencies returns the nodes that a
\* path of one or more edges leads to from the module, the module itself left
\* out (also on a cycle), and with include_core false the core names left out.
C7_AllDependencies ==
    (op.name = "get_all_dependencies" /\ op.args[1] \in NodeSet(graph)) =>
        LET m == op.args[1]
            reach == {n \in NodeSet(graph) : <<m, n>> \in PathPairs(graph)} \ {m}
        IN  op.ret = IF op.args[2] THEN reach ELSE reach \ CORE_MODULES

\* the dependencies without core of a module on a cycle that reaches base in two
\* steps
C7_Witness ==
    /\ op.name = "get_all_dependencies" /\ op.args[1] \in NodeSet(graph)
    /\ ~op.args[2]
    /\ <<op.args[1], op.args[1]>> \in PathPairs(graph)
    /\ <<op.args[1], "base">> \in PathPairs(graph)
    /\ "base" \notin Succ(graph, op.args[1])
    /\ op.ret # {}

\* C8 as stated: get_reverse_dependencies returns exactly the nodes from which a
\* path of one or more edges leads to the module.
C8_Original ==
    (op.name = "get_reverse_dependencies" /\ op.args[1] \in NodeSet(graph)) =>
        op.ret = {n \in NodeSet(graph) : <<n, op.args[1]>> \in PathPairs(graph)}

\* C8 amended: get_reverse_dependencies returns the nodes other than the module
\* from which a path of one or more edges leads to the module; and for all nodes
\* A # B, B is in get_all_dependencies(A) iff A is in get_reverse_dependencies(B).
C8_ReverseDependencies ==
    /\ (op.name = "get_reverse_dependencies" /\ op.args[1] \in NodeSet(graph)) =>
          op.ret = {n \in NodeSet(graph) : <<n, op.args[1]>> \in PathPairs(graph)} \ {op.args[1]}
    /\ op.name = "get_reverse_dependencies" =>
          \A a, b \in NodeSet(graph) :
              a # b => (b \in AllDependencies(graph, a, TRUE) <=> a \in ReverseDependencies(graph, b))

\* the dependents of a module on a cycle that also has a dependent two steps away
C8_Witness ==
    /\ op.name = "get_reverse_dependencies" /\ op.args[1] \in NodeSet(graph)
    /\ <<op.args[1], op.args[1]>> \in PathPairs(graph)
    /\ \E n \in op.ret : n \notin Pred(graph, op.args[1])

\* C9: on an acyclic graph get_install_order(subset) with a non-empty subset
\* returns exactly the named modules that are nodes and everything they depend
\* on, each once, in the relative order of the full install order; for
\* a -> b -> c and subset [a] it returns [c, b, a].
C9_SubsetOrder ==
    (op.name = "get_install_order" /\ ~op.args[1].isNone /\ op.args[1].names # <<>>
       /\ Acyclic(graph)) =>
        LET named == Range(op.args[1].names) \cap NodeSet(graph)
            closure == named \cup {n \in NodeSet(graph) : \E m \in named : <<m, n>> \in PathPairs(graph)}
            full == InstallOrder(graph, NoSubset)
        IN  /\ Range(op.ret) = closure
            /\ op.ret = SelectSeq(full, LAMBDA n : n \in closure)
            /\ NoRepeat(op.ret)
            /\ (Edges(graph) = {<<"a", "b">>, <<"b", "c">>} /\ NodeSet(graph) = {"a", "b", "c"}
                  /\ op.args[1].names = <<"a">>) => op.ret = <<"c", "b", "a">>

\* subset [a] on the scanned modules a -> b -> c
C9_Witness ==
    /\ op.name = "get_install_order" /\ op.args[1] = SubsetOf(<<"a">>)
    /\ Edges(graph) = {<<"a", "b">>, <<"b", "c">>} /\ NodeSet(graph) = {"a", "b", "c"}
    /\ op.ret = <<"c", "b", "a">>

\* a subset that names a module, an absent name and leaves a scanned module out
C9_PartialWitness ==
    /\ op.name = "get_install_order" /\ op.args[1] = SubsetOf(<<"c", "ghost">>)
    /\ Acyclic(graph)
    /\ Len(op.ret) = 2
    /\ Cardinality(NodeSet(graph)) = 4

\* C10: added_modules are exactly the names scanned in the target and not in the
\* source, removed_modules exactly those scanned in the source and not in the
\* target, each once; the lists are disjoint and hold no name scanned on both
\* sides; source {a: []} and target {a: [b], b: []} give added [b], removed [].
C10_AddedRemoved ==
    (op.name = "compare_versions" /\ ~op.raised) =>
        LET src == Keys(source_analyzer.modules)
            tgt == Keys(target_analyzer.modules)
            added == op.ret.added_modules
            removed == op.ret.removed_modules
        IN  /\ Range(added) = tgt \ src /\ NoRepeat(added)
            /\ Range(removed) = src \ tgt /\ NoRepeat(removed)
            /\ Range(added) \cap Range(removed) = {}
            /\ (Range(added) \cup Range(removed)) \cap (src \cap tgt) = {}
            /\ (src = {"a"} /\ tgt = {"a", "b"}) => (added = <<"b">> /\ removed = <<>>)

\* source {a: []}, target {a: [b], b: []}
C10_Witness ==
    /\ op.name = "compare_versions" /\ ~op.raised
    /\ KeySeq(source_analyzer.modules) = <<"a">>
    /\ source_analyzer.modules[1].depends = <<>>
    /\ KeySeq(target_analyzer.modules) = <<"a", "b">>
    /\ target_analyzer.modules[1].depends = <<"b">>
    /\ op.ret.added_modules = <<"b">> /\ op.ret.removed_modules = <<>>

\* the compared attributes on which two scanned modules differ
Differing(s, t) ==
    {k \in {"version", "category", "application"} : s[k] # t[k]}
    \cup (IF Range(s.depends) # Range(t.depends) THEN {"depends"} ELSE {})

\* C11: a name scanned on both sides has an entry in modified_modules iff its
\* version, category, application flag or set of dependency names differs; the
\* entry is its only one and its change list has one item for each differing
\* attribute; a name scanned on one side only has no entry; dependency lists
\* that differ only in order or repetition do not make a module modified.
C11_ModifiedModules ==
    (op.name = "compare_versions" /\ ~op.raised) =>
        LET src == source_analyzer.modules
            tgt == target_analyzer.modules
            mm == op.ret.modified_modules
        IN  /\ \A i, j \in 1..Len(mm) : mm[i].name = mm[j].name => i = j
            /\ \A i \in 1..Len(mm) : mm[i].name \in Keys(src) \cap Keys(tgt)
            /\ \A n \in Keys(src) \cap Keys(tgt) :
                 LET d == Differing(Lookup(src, n), Lookup(tgt, n)) IN
                 /\ (\E i \in 1..Len(mm) : mm[i].name = n) <=> d # {}
                 /\ \A i \in 1..Len(mm) :
                      mm[i].name = n =>
                        /\ Range(mm[i].changes) = d
                        /\ Len(mm[i].changes) = Cardinality(d)

\* a declares [b, c] in the source and [c, b] in the target and is not modified
C11_Witness ==
    /\ op.name = "compare_versions" /\ ~op.raised
    /\ "a" \in Keys(source_analyzer.modules) \cap Keys(target_analyzer.modules)
    /\ Lookup(source_analyzer.modules, "a").depends = <<"b", "c">>
    /\ Lookup(target_analyzer.modules, "a").depends = <<"c", "b">>
    /\ op.ret.modified_modules = <<>>

\* a differs in version, category and application and has three changes
C11_ThreeChangesWitness ==
    /\ op.name = "compare_versions" /\ ~op.raised
    /\ \E i \in 1..Len(op.ret.modified_modules) :
         /\ op.ret.modified_modules[i].name = "a"
         /\ op.ret.modified_modules[i].changes = <<"version", "category", "application">>

\* a is not installable on one side only and is not modified
C11_InstallableWitness ==
    /\ op.name = "compare_versions" /\ ~op.raised
    /\ "a" \in Keys(source_analyzer.modules) \cap Keys(target_analyzer.modules)
    /\ Lookup(source_analyzer.modules, "a").installable
         # Lookup(target_analyzer.modules, "a").installable
    /\ op.ret.modified_modules = <<>>

\* C12: dependency_changes has an entry for a name iff the name is scanned on
\* both sides and its sets of dependency names differ; the entry is its only
\* one, added_dependencies is the target set minus the source set and
\* removed_dependencies the source set minus the target set, each name once.
C12_DependencyChanges ==
    (op.name = "compare_versions" /\ ~op.raised) =>
        LET src == source_analyzer.modules
            tgt == target_analyzer.modules
            dc == op.ret.dependency_changes
        IN  /\ \A i, j \in 1..Len(dc) : dc[i].module = dc[j].module => i = j
            /\ \A i \in 1..Len(dc) : dc[i].module \in Keys(src) \cap Keys(tgt)
            /\ \A n \in Keys(src) \cap Keys(tgt) :
                 LET sd == Range(Lookup(src, n).depends)
                     td == Range(Lookup(tgt, n).depends)
                 IN  /\ (\E i \in 1..Len(dc) : dc[i].module = n) <=> sd # td
                     /\ \A i \in 1..Len(dc) :
                          dc[i].module = n =>
                            /\ Range(dc[i].added_dependencies) = td \ sd
                            /\ NoRepeat(dc[i].added_dependencies)
                            /\ Range(dc[i].removed_dependencies) = sd \ td
                            /\ NoRepeat(dc[i].removed_dependencies)

\* a declares [b] in the source and [c] in the target, b is on both sides
\* unchanged: one entry, for a, with c added and b removed
C12_Witness ==
    /\ op.name = "compare_versions" /\ ~op.raised
    /\ Keys(source_analyzer.modules) = {"a", "b"}
    /\ Keys(target_analyzer.modules) = {"a", "b"}
    /\ Lookup(source_analyzer.modules, "a").depends = <<"b">>
    /\ Lookup(target_analyzer.modules, "a").depends = <<"c">>
    /\ op.ret.dependency_changes =
         <<[module |-> "a", added_dependencies |-> <<"c">>,
            removed_dependencies |-> <<"b">>]>>

\* a is scanned in the target only, with dependencies, and gets no entry
C12_AddedModuleWitness ==
    /\ op.name = "compare_versions" /\ ~op.raised
    /\ "a" \in Keys(target_analyzer.modules) \ Keys(source_analyzer.modules)
    /\ Lookup(target_analyzer.modules, "a").depends # <<>>
    /\ op.ret.dependency_changes = <<>>

\* the risk level the thresholds give for d dependents and e entities
Tier(name, d, e) ==
    IF d > 50 \/ name \in CORE_MODULES THEN "critical"
    ELSE IF d > 20 THEN "high"
    ELSE IF d > 5 \/ e > 10 THEN "medium"
    ELSE "low"

\* C13: for a scanned module with d reported dependents (all_dependents) and e
\* reported entities (affected_models) the risk level is critical if d > 50 or
\* the name is a core name, else high if d > 20, else medium if d > 5 or
\* e > 10, else low; so d = 50, 20, 5 and e = 10 fall in the lower tier and
\* e > 10 lowers no tier.
C13_RiskTiers ==
    (op.name = "assess_upgrade_impact" /\ op.args[1] \in Keys(modules)) =>
        LET d == Len(op.ret.all_dependents)
            e == Len(op.ret.affected_models)
        IN  /\ op.ret.risk_level = Tier(op.args[1], d, e)
            /\ (d = 60 /\ d = Cardinality(Ancestors(graph, op.args[1])))
                 => op.ret.risk_level = "critical"
            /\ (d = 3 /\ e = 2 /\ op.args[1] \notin CORE_MODULES)
                 => op.ret.risk_level = "low"

\* a with 5 dependents and 11 entities is medium
C13_Witness ==
    /\ op.name = "assess_upgrade_impact" /\ op.args = <<"a">>
    /\ Cardinality(Ancestors(graph, "a")) = 5
    /\ Len(op.ret.all_dependents) = 5
    /\ Len(op.ret.affected_models) = 11
    /\ op.ret.risk_level = "medium"

\* a with 50 dependents and 10 entities is high
C13_FiftyWitness ==
    /\ op.name = "assess_upgrade_impact" /\ op.args = <<"a">>
    /\ Len(op.ret.all_dependents) = 50 /\ Len(op.ret.affected_models) = 10
    /\ op.ret.risk_level = "high"

\* a with 60 dependents is critical
C13_SixtyWitness ==
    /\ op.name = "assess_upgrade_impact" /\ op.args = <<"a">>
    /\ Len(op.ret.all_dependents) = 60
    /\ op.ret.risk_level = "critical"

\* base with no dependent and no entity is critical
C13_CoreWitness ==
    /\ op.name = "assess_upgrade_impact" /\ op.args = <<"base">>
    /\ "base" \in Keys(modules)
    /\ op.ret.all_dependents = <<>> /\ op.ret.affected_models = <<>>
    /\ op.ret.risk_level = "critical"

\* a with 21 dependents and 11 entities stays high
C13_HighWitness ==
    /\ op.name = "assess_upgrade_impact" /\ op.args = <<"a">>
    /\ Len(op.ret.all_dependents) = 21 /\ Len(op.ret.affected_models) = 11
    /\ op.ret.risk_level = "high"

\* C14: for a scanned module, the direct_dependents of assess_upgrade_impact
\* are exactly the nodes with an edge to the module (one hop).
C14_DirectDependents ==
    (op.name = "assess_upgrade_impact" /\ op.args[1] \in Keys(modules)) =>
        Range(op.ret.direct_dependents) = Pred(graph, op.args[1])

\* what assess_upgrade_impact returns for a name it does not find
NotFound(ret) ==
    /\ ret.risk_level = "critical"
    /\ Len(ret.risk_factors) = 1 /\ ret.risk_factors[1][1] = "not_found"
    /\ ret.direct_dependents = <<>> /\ ret.all_dependents = <<>>
    /\ ret.affected_models = <<>>
    /\ ret.recommendations = <<>>

\* C15: assess_upgrade_impact for a name that is no node of the graph does not
\* raise and returns risk level critical with the one 'not found' factor, no
\* dependents, no affected models and no recommendations.
C15_AbsentIsNotFound ==
    (op.name = "assess_upgrade_impact" /\ op.args[1] \notin NodeSet(graph)) =>
        ~op.raised /\ NotFound(op.ret)

\* the same for a name that is neither a node of the graph nor scanned
C15_UnscannedAbsentIsNotFound ==
    (op.name = "assess_upgrade_impact" /\ op.args[1] \notin NodeSet(graph)
     /\ op.args[1] \notin Keys(modules)) =>
        ~op.raised /\ NotFound(op.ret)

RECURSIVE LongestPath(_, _)
\* the number of edges of the longest path from n in an acyclic graph
LongestPath(g, n) ==
    IF Succ(g, n) = {} THEN 0
    ELSE LET below == {LongestPath(g, s) : s \in Succ(g, n)}
         IN  1 + CHOOSE m \in below : \A k \in below : k <= m

\* C16: in an acyclic graph get_dependency_depth(module) is the number of
\* edges of the longest path of outgoing edges from the module, also when a
\* dependency is reached by paths of different lengths; 0 without dependencies.
C16_DepthIsLongestPath ==
    (op.name = "get_dependency_depth" /\ Acyclic(graph)
     /\ op.args[1] \in NodeSet(graph)) =>
        op.ret = LongestPath(graph, op.args[1])

\* get_dependency_depth is the greatest of the least distances
C16_DepthIsEccentricity ==
    (op.name = "get_dependency_depth" /\ Acyclic(graph)
     /\ op.args[1] \in NodeSet(graph)) =>
        /\ op.ret <= LongestPath(graph, op.args[1])
        /\ (op.ret = 0) <=> (Succ(graph, op.args[1]) = {})

\* the queries that are asked about one name
NameQueries == {"get_all_dependencies", "get_reverse_dependencies", "get_dependency_depth"}

\* C17: get_all_dependencies, get_reverse_dependencies and get_dependency_depth
\* asked about a name that is no node of the graph they work on (the graph
\* there is, or the one they build when there is none) return the empty set,
\* the empty set and 0 without raising, leave the module mapping as it is and
\* do not make the name a node.
C17_AbsentNameQueries ==
    [][(op'.name \in NameQueries
        /\ op'.args[1] \notin NodeSet(Ensure(graph, modules))) =>
          /\ ~op'.raised
          /\ op'.ret = (IF op'.name = "get_dependency_depth" THEN 0 ELSE {})
          /\ modules' = modules
          /\ op'.args[1] \notin NodeSet(graph')]_vars

\* get_dependency_depth of ghost on a graph with nodes returned 0
C17_Witness ==
    /\ op.name = "get_dependency_depth" /\ op.args = <<"ghost">>
    /\ NodeSet(graph) # {} /\ Edges(graph) # {}
    /\ op.ret = 0

\* get_all_dependencies of a scanned module that depends on another, asked
\* while the graph is the one built before the scan
C17_StaleWitness ==
    /\ op.name = "get_all_dependencies" /\ op.args[1] = "a"
    /\ "a" \in Keys(modules) /\ Lookup(modules, "a").depends # <<>>
    /\ "a" \notin NodeSet(graph) /\ ~graph.isNone
    /\ op.ret = {}

\* the graph queries of the analyzer that the model has
GraphQueries ==
    NameQueries \cup {"get_install_order", "find_circular_dependencies"}

\* C18: a graph query that is the first call on an analyzer, so that
\* scan_modules was never called, fails explicitly.
C18_QueryBeforeScanFails ==
    [][(op.name = "__init__" /\ op'.name \in GraphQueries) => op'.raised]_vars

\* C19: compare_versions raises, and gives no diff, iff the source side or the
\* target side is not loaded; with both loaded it returns a diff.
C19_CompareNeedsBothSides ==
    op.name = "compare_versions" =>
        /\ op.raised <=> (source_analyzer.isNone \/ target_analyzer.isNone)
        /\ op.raised => op.ret = <<>>
        /\ ~op.raised =>
             DOMAIN op.ret = {"added_modules", "removed_modules",
                              "modified_modules", "dependency_changes"}

\* compare_versions raised with the source loaded and the target not
C19_Witness ==
    /\ op.name = "compare_versions" /\ op.raised
    /\ ~source_analyzer.isNone /\ Keys(source_analyzer.modules) # {}
    /\ target_analyzer.isNone

\* compare_versions raised with the target loaded and the source not
C19_TargetOnlyWitness ==
    /\ op.name = "compare_versions" /\ op.raised
    /\ source_analyzer.isNone /\ ~target_analyzer.isNone

\* compare_versions returned a diff
C19_DiffWitness ==
    /\ op.name = "compare_versions" /\ ~op.raised
    /\ ~source_analyzer.isNone /\ ~target_analyzer.isNone

\* the dependencies the scanned modules declare
Declared(mods) ==
    UNION {{<<mods[i].name, d>> : d \in Range(mods[i].depends)} : i \in 1..Len(mods)}

\* C20: when a graph query has been answered, the nodes of the graph that are
\* no external placeholders are the keys of the module mapping and the edges
\* are the declared dependencies of the modules of the mapping.
C20_QueriesUseCurrentGraph ==
    op.name \in GraphQueries =>
        /\ NodeSet(graph) \ External(graph) = Keys(modules)
        /\ Edges(graph) = Declared(modules)

\* a scan, a build, add_path, a second scan that finds c, and directly a query
\* that is answered from the graph of the first scan
C20_RescanWitness ==
    /\ op.name = "get_reverse_dependencies" /\ op.args = <<"a">>
    /\ Len(fs) = 2
    /\ Keys(modules) = {"a", "c"}
    /\ NodeSet(graph) = {"a"}
    /\ op.ret = {}

(***************************************************************************)
(* The claims about the scan are stated with the tree below a root: every  *)
(* directory with its path from the root.                                  *)
(***************************************************************************)
RECURSIVE Below(_, _)
Below(dir, path) ==
    UNION {{<<Append(path, c.name), c>>} \cup Below(c, Append(path, c.name)) :
             c \in Range(dir.children)}

Tree(root) == {<<<<root.name>>, root>>} \cup Below(root, <<root.name>>)

ModuleDirs(root) == {e \in Tree(root) : IsOdooModule(e[2])}

\* the root is no module and holds one module directory, with no other module
\* directory anywhere below it
SingleModuleRoot(root) ==
    /\ ~IsOdooModule(root)
    /\ Cardinality(ModuleDirs(root)) = 1
    /\ \E c \in Range(root.children) : IsOdooModule(c)

TheModule(root) == CHOOSE c \in Range(root.children) : IsOdooModule(c)

\* C21 as stated: scan_modules over one root that holds a single module directory
\* (__init__.py and a manifest file under either name) returns a mapping with
\* exactly one entry, whose key is the name of the directory
C21_Original ==
    (op.name = "scan_modules" /\ Len(fs) = 1 /\ SingleModuleRoot(fs[1]))
    => /\ ~op.raised
       /\ op.ret = <<TheModule(fs[1]).name>>
       /\ KeySeq(modules) = op.ret

\* C21 amended: scan_modules over one root that holds a single module directory
\* whose name does not begin with '.' and whose manifest file can be read returns
\* a mapping with exactly one entry, whose key is the name of the directory and
\* not the name the manifest gives
C21_SingleModule ==
    (/\ op.name = "scan_modules" /\ Len(fs) = 1 /\ SingleModuleRoot(fs[1])
     /\ ~StartsWithDot(TheModule(fs[1]).name)
     /\ TheModule(fs[1]).manifest.kind # "unreadable")
    => /\ ~op.raised
       /\ op.ret = <<TheModule(fs[1]).name>>
       /\ KeySeq(modules) = op.ret

\* the single module a, whose manifest gives the name Alpha, has been scanned
C21_Witness ==
    /\ op.name = "scan_modules" /\ Len(fs) = 1 /\ SingleModuleRoot(fs[1])
    /\ TheModule(fs[1]).name = "a"
    /\ Get(TheModule(fs[1]).manifest.data, "name", "a") = "Alpha"
    /\ op.ret = <<"a">>

\* the single module has its manifest in __openerp__.py
C21_OpenerpWitness ==
    /\ op.name = "scan_modules" /\ Len(fs) = 1 /\ SingleModuleRoot(fs[1])
    /\ TheModule(fs[1]).manifest.file = "__openerp__.py"
    /\ Len(modules) = 1

\* the directories of the roots that the scan hands to _parse_module
Discovered == UNION {ParsedDirs(fs[i]) : i \in 1..Len(fs)}

Malformed(dir) == dir.manifest.kind \in {"literal", "code", "unreadable"}

\* C22: a scan that meets a module whose manifest cannot be read, is no literal
\* or is a literal other than a dict does not raise; every discovered module
\* whose manifest can be read is in the mapping, the malformed ones by the keys
\* the regular expressions find, and the unreadable ones are left out
C22_MalformedManifest ==
    (op.name = "scan_modules" /\ \E d \in Discovered : Malformed(d))
    => /\ ~op.raised
       /\ Keys(modules) = {d.name : d \in {x \in Discovered : x.manifest.kind # "unreadable"}}
       /\ \A d \in Discovered :
            d.manifest.kind # "unreadable"
            => Lookup(modules, d.name).depends = Get(d.manifest.data, "depends", <<>>)

\* the manifest of a cannot be read and b, in group, is returned alone
C22_Witness ==
    /\ op.name = "scan_modules" /\ ~op.raised
    /\ \E d \in Discovered : d.name = "a" /\ d.manifest.kind = "unreadable"
    /\ op.ret = <<"b">>

\* a manifest that is no literal is recorded with the dependency its text names
C22_FallbackWitness ==
    /\ op.name = "scan_modules"
    /\ \E d \in Discovered : d.name = "a" /\ d.manifest.kind = "code"
    /\ "a" \in Keys(modules) /\ Lookup(modules, "a").depends = <<"c">>

\* a manifest that is a literal but no dict is recorded, with no dependency
C22_LiteralWitness ==
    /\ op.name = "scan_modules"
    /\ \E d \in Discovered : d.name = "a" /\ d.manifest.kind = "literal"
    /\ "a" \in Keys(modules) /\ Lookup(modules, "a").depends = <<>>

DirAtPath(root, path) == (CHOOSE e \in Tree(root) : e[1] = path)[2]

\* the places of a root where a module directory is looked for: the root, or
\* when it is no module its subdirectories and the subdirectories of those of
\* them that are no modules
Places(root) ==
    IF IsOdooModule(root) THEN {<<root.name>>}
    ELSE {e[1] : e \in {x \in Tree(root) :
            \/ Len(x[1]) = 2
            \/ Len(x[1]) = 3 /\ ~IsOdooModule(DirAtPath(root, SubSeq(x[1], 1, 2)))}}

\* C23: every module of the mapping that scan_modules returns is a module
\* directory that is a root, a subdirectory of a root that is no module, or a
\* subdirectory of such a subdirectory that is no module; so a module directory
\* deeper than that, or inside a module, or below a root that is a module, is
\* not in the mapping
C23_ScanDepth ==
    op.name = "scan_modules"
    => /\ \A i \in 1..Len(modules) :
            \E r \in 1..Len(fs) :
               /\ modules[i].path \in Places(fs[r])
               /\ IsOdooModule(DirAtPath(fs[r], modules[i].path))
               /\ DirAtPath(fs[r], modules[i].path).name = modules[i].name
       /\ \A r \in 1..Len(fs) : \A e \in ModuleDirs(fs[r]) :
            e[1] \notin Places(fs[r]) => \A i \in 1..Len(modules) : modules[i].path # e[1]
       /\ \A r \in 1..Len(fs) : IsOdooModule(fs[r]) => Keys(modules) \subseteq {fs[r].name}

\* the module far, three levels below the root, is left out of a mapping that
\* has the module b of the second level
C23_Witness ==
    /\ op.name = "scan_modules"
    /\ \E e \in ModuleDirs(fs[1]) : Len(e[1]) = 4 /\ e[2].name = "far"
    /\ "b" \in Keys(modules) /\ Lookup(modules, "b").path = <<"addons", "group", "b">>
    /\ "far" \notin Keys(modules)

\* the module inner, inside the module a, is left out
C23_NestedWitness ==
    /\ op.name = "scan_modules"
    /\ \E e \in ModuleDirs(fs[1]) : e[1] = <<"addons", "a", "inner">>
    /\ op.ret = <<"a">>

\* the root is a module with module directories below it, and is returned alone
C23_RootWitness ==
    /\ op.name = "scan_modules"
    /\ IsOdooModule(fs[1]) /\ Cardinality(ModuleDirs(fs[1])) > 2
    /\ op.ret = <<"addons">>

\* C24: after a scan no module of the mapping is a directory below a root whose
\* name begins with '.', or lies inside such a directory, at the first or at
\* the second level below the root
C24_DotDirsSkipped ==
    op.name = "scan_modules"
    => \A i \in 1..Len(modules) :
         \A k \in 2..Len(modules[i].path) : ~StartsWithDot(modules[i].path[k])

\* the same for the first level below the root only, where line 114 tests the name
C24_FirstLevelDotDirsSkipped ==
    op.name = "scan_modules"
    => \A i \in 1..Len(modules) :
         Len(modules[i].path) >= 2 => ~StartsWithDot(modules[i].path[2])

\* the body of the one class of the analyzed module
ClassBody ==
    LET dir == fs[1].children[1] IN
    (IF dir.children = <<>> THEN Files(dir) ELSE Files(dir.children[1]))[1].classes[1].body

AssignsName(body) == \E i \in 1..Len(body) : body[i].target = "_name"

AssignsInherit(body) ==
    \E i \in 1..Len(body) : body[i].target = "_inherit" /\ body[i].value.kind \in {"str", "list"}

AssignsField(body) ==
    \E i \in 1..Len(body) :
       /\ body[i].target \notin {"_name", "_inherit", "_inherits", "_description"}
       /\ IsFieldDefinition(body[i].value)

\* C25: analyze_module records a class that assigns _name, or assigns one or
\* more names to _inherit, or has at least one assignment of a recognized
\* field to an attribute that is none of the reserved ones: a class with
\* field assignments only is recorded too
C25_EntityRule ==
    (op.name = "analyze_module"
     /\ (AssignsName(ClassBody) \/ AssignsInherit(ClassBody) \/ AssignsField(ClassBody)))
    => Len(op.ret) = 1

\* the same without the field assignments: a class that assigns _name or one
\* or more names to _inherit is recorded, and no other class is
C25_NameOrInheritRule ==
    op.name = "analyze_module"
    => ((AssignsName(ClassBody) \/ AssignsInherit(ClassBody)) <=> Len(op.ret) = 1)

\* C26: for a scanned module the all_dependents of assess_upgrade_impact are
\* exactly get_reverse_dependencies(module), the dependents at every depth, and
\* the module itself is none of them, on a dependency cycle or not
C26_AllDependents ==
    (op.name = "assess_upgrade_impact" /\ op.args[1] \in Keys(modules))
    => /\ Range(op.ret.all_dependents) = ReverseDependencies(graph, op.args[1])
       /\ op.args[1] \notin Range(op.ret.all_dependents)

\* the same but for the module itself: all_dependents without the module are
\* get_reverse_dependencies(module)
C26_AllDependentsButItself ==
    (op.name = "assess_upgrade_impact" /\ op.args[1] \in Keys(modules))
    => Range(op.ret.all_dependents) \ {op.args[1]} = ReverseDependencies(graph, op.args[1])

\* the names that are nodes only because a manifest declares them
Placeholders == External(graph) \ Keys(modules)

\* C27: assess_upgrade_impact of an external placeholder, a node that a manifest
\* declares and no scan has found, gives what it gives for a name that is no
\* node: risk level critical, the one 'not found' factor and no dependents,
\* however many modules depend on it; and every external placeholder in the
\* result of get_upgrade_order has risk level critical and dependents_count 0
C27_ExternalPlaceholder ==
    /\ (op.name = "assess_upgrade_impact" /\ op.args[1] \in Placeholders)
       => NotFound(op.ret) /\ op.ret.risk_factors = <<<<"not_found", op.args[1]>>>>
    /\ op.name = "get_upgrade_order"
       => \A i \in 1..Len(op.ret) :
            op.ret[i].module \in Placeholders
            => op.ret[i].risk_level = "critical" /\ op.ret[i].dependents_count = 0

\* get_upgrade_order has returned an external placeholder that two modules
\* depend on, after it a module with a dependent
C27_Witness ==
    /\ op.name = "get_upgrade_order"
    /\ \E i \in 1..Len(op.ret) :
         /\ op.ret[i].module \in Placeholders
         /\ Cardinality(Pred(graph, op.ret[i].module)) >= 2
         /\ op.ret[i].risk_level = "critical" /\ op.ret[i].dependents_count = 0
    /\ \E i \in 1..Len(op.ret) : op.ret[i].dependents_count > 0

\* the placeholder c, which two modules depend on, has been assessed
C27_AssessWitness ==
    /\ op.name = "assess_upgrade_impact" /\ op.args = <<"c">>
    /\ "c" \in Placeholders /\ Cardinality(Pred(graph, "c")) >= 2
    /\ NotFound(op.ret)

\* C28: get_install_order([]) returns what get_install_order() returns, the
\* order of all nodes of the graph (the empty list when the graph has a
\* cycle), not the empty closure of the empty subset
C28_EmptySubset ==
    (op.name = "get_install_order" /\ op.args[1] = SubsetOf(<<>>))
    => /\ op.ret = InstallOrder(graph, NoSubset)
       /\ Acyclic(graph) => (Range(op.ret) = NodeSet(graph) /\ NoRepeat(op.ret))

\* get_install_order([]) has returned three nodes or more
C28_Witness ==
    /\ op.name = "get_install_order" /\ op.args[1] = SubsetOf(<<>>)
    /\ Len(op.ret) >= 3

Names(entries, key) == [i \in 1..Len(entries) |-> entries[i][key]]

\* what a module says, its path left out
Content(mods) ==
    {[k \in {"name", "version", "category", "depends", "installable", "application"}
        |-> mods[i][k]] : i \in 1..Len(mods)}

\* C29: compare_versions with source and target exchanged has added_modules and
\* removed_modules exchanged and, module by module, added_dependencies and
\* removed_dependencies exchanged, with the same names in modified_modules and
\* in dependency_changes; a set of modules compared with itself gives four
\* empty lists
C29_Antisymmetric ==
    (op.name = "compare_versions" /\ ~op.raised)
    => LET d == op.ret
           r == CompareVersions(target_analyzer.modules, source_analyzer.modules)
       IN  /\ d.added_modules = r.removed_modules
           /\ d.removed_modules = r.added_modules
           /\ Names(d.modified_modules, "name") = Names(r.modified_modules, "name")
           /\ Names(d.dependency_changes, "module") = Names(r.dependency_changes, "module")
           /\ \A i \in 1..Len(d.dependency_changes) :
                /\ d.dependency_changes[i].added_dependencies
                     = r.dependency_changes[i].removed_dependencies
                /\ d.dependency_changes[i].removed_dependencies
                     = r.dependency_changes[i].added_dependencies
           /\ Content(source_analyzer.modules) = Content(target_analyzer.modules)
              => d = [added_modules |-> <<>>, removed_modules |-> <<>>,
                      modified_modules |-> <<>>, dependency_changes |-> <<>>]
           /\ CompareVersions(source_analyzer.modules, source_analyzer.modules)
                = [added_modules |-> <<>>, removed_modules |-> <<>>,
                   modified_modules |-> <<>>, dependency_changes |-> <<>>]

\* a diff with an added module, a modified module and a dependency added and
\* another removed
C29_Witness ==
    /\ op.name = "compare_versions" /\ ~op.raised
    /\ op.ret.added_modules # <<>> /\ op.ret.removed_modules = <<>>
    /\ op.ret.modified_modules # <<>>
    /\ \E i \in 1..Len(op.ret.dependency_changes) :
         /\ op.ret.dependency_changes[i].added_dependencies # <<>>
         /\ op.ret.dependency_changes[i].removed_dependencies # <<>>

\* two sides with the same two modules have been compared
C29_SelfWitness ==
    /\ op.name = "compare_versions" /\ ~op.raised
    /\ Len(source_analyzer.modules) = 2
    /\ Content(source_analyzer.modules) = Content(target_analyzer.modules)
    /\ op.ret.modified_modules = <<>>

Position(n) == CHOOSE i \in 1..Len(SortedNames) : SortedNames[i] = n

Ascending(names) ==
    \A i, j \in 1..Len(names) : i < j => Position(names[i]) < Position(names[j])

\* C30: in a result of compare_versions a module has an entry in
\* dependency_changes iff it has one in modified_modules whose changes have the
\* dependency mark, so every module of dependency_changes is in
\* modified_modules; both lists are in ascending order of the module names,
\* with no name twice
C30_DependencyChangesInModified ==
    (op.name = "compare_versions" /\ ~op.raised)
    => LET mm == op.ret.modified_modules
           dc == op.ret.dependency_changes
       IN  /\ Range(Names(dc, "module"))
                = {mm[i].name : i \in {k \in 1..Len(mm) : "depends" \in Range(mm[k].changes)}}
           /\ Range(Names(dc, "module")) \subseteq Range(Names(mm, "name"))
           /\ Ascending(Names(mm, "name"))
           /\ Ascending(Names(dc, "module"))

\* both modules have a dependency change, and the target lists b before a
C30_Witness ==
    /\ op.name = "compare_versions" /\ ~op.raised
    /\ KeySeq(target_analyzer.modules) = <<"b", "a">>
    /\ Names(op.ret.dependency_changes, "module") = <<"a", "b">>
    /\ Names(op.ret.modified_modules, "name") = <<"a", "b">>

\* a module is modified and has no dependency change
C30_VersionOnlyWitness ==
    /\ op.name = "compare_versions" /\ ~op.raised
    /\ op.ret.modified_modules # <<>> /\ op.ret.dependency_changes = <<>>

====
